---- MODULE Spec2Model ----
(***************************************************************************)
(* Model of the graph store of the better graph view plugin                *)
(* (src/src/graph/graph.js): the node list, the id indices, the degree     *)
(* cache and the incident-edge lists, under every public operation.        *)
(***************************************************************************)
EXTENDS Integers, Sequences, FiniteSets, TLC

\* ------------------------------------------------------------------------
\* Inputs and bounds
\* ------------------------------------------------------------------------

\* The node ids callers use.
NodeIds == {"A", "B"}

\* The edge ids callers use.
EdgeIds == {"e1", "e2"}

\* The Edge objects callers construct: new Edge(id, sourceId, targetId).
EdgeInputs ==
  { [id |-> "e1", source |-> "A", target |-> "B"],
    [id |-> "e1", source |-> "B", target |-> "B"],
    [id |-> "e2", source |-> "B", target |-> "A"] }

\* Cap on the length of one incident-edge list (the lists only shrink when
\* they are read, so add/remove cycles would grow them without bound).
MaxIncident == 2

\* Cap on the length of an array a caller appends to.
MaxHeld == 3

\* ------------------------------------------------------------------------
\* State
\* ------------------------------------------------------------------------

VARIABLES
  nodes_,           \* Array<Node>: the nodes in insertion order
  nodesMap_,        \* Map<string, Node>
  edgesMap_,        \* Map<string, Edge>, in insertion order
  degreeCache_,     \* Map<string, number>
  connectedEdges_,  \* Map<string, Array<Edge>>
  last,             \* the last call: its name, argument and outcome
  refNodes,         \* reference node set obtained by replaying the calls
  refEdges,         \* reference edge set obtained by replaying the calls
  held,             \* the array a caller got from getNodes() / getEdges()
  answer            \* the last call on an adapter, a query or the builder

vars == <<nodes_, nodesMap_, edgesMap_, degreeCache_, connectedEdges_,
          last, refNodes, refEdges, held, answer>>

\* The store as one value, for the operators below.
G == [nodes_ |-> nodes_, nodesMap_ |-> nodesMap_, edgesMap_ |-> edgesMap_,
      degreeCache_ |-> degreeCache_, connectedEdges_ |-> connectedEdges_]

\* ------------------------------------------------------------------------
\* Helpers for arrays and maps
\* ------------------------------------------------------------------------

\* Map.delete(key)
MapDelete(m, k) == [x \in (DOMAIN m) \ {k} |-> m[x]]

\* Map.set(key, value)
MapSet(m, k, v) == [x \in (DOMAIN m) \cup {k} |-> IF x = k THEN v ELSE m[x]]

\* new Map()
EmptyMap == [x \in {} |-> 0]

\* Array.prototype.findIndex on ids, 1-based; 0 stands for JavaScript's -1.
findIndex(s, nodeId) ==
  IF \E i \in 1..Len(s) : s[i] = nodeId
  THEN CHOOSE i \in 1..Len(s) :
         s[i] = nodeId /\ \A j \in 1..(i - 1) : s[j] # nodeId
  ELSE 0

\* Array.prototype.splice(start, 1) with start = findIndex's result: a start
\* of -1 counts from the end, so it removes the last element.
splice(s, idx) ==
  IF Len(s) = 0 THEN s
  ELSE LET at == IF idx = 0 THEN Len(s) ELSE idx
       IN  SubSeq(s, 1, at - 1) \o SubSeq(s, at + 1, Len(s))

\* The ids of a list of edges: edges.map(e => e.id)
RECURSIVE ids(_)
ids(s) == IF s = <<>> THEN <<>> ELSE <<Head(s).id>> \o ids(Tail(s))

\* The set of elements of a sequence.
Range(s) == {s[i] : i \in 1..Len(s)}

\* ------------------------------------------------------------------------
\* Edge (src/unnamed/part_023)
\* ------------------------------------------------------------------------

getSourceId(edge) == edge.source

getTargetId(edge) == edge.target

isConnectedToNode(edge, nodeId) ==
  getSourceId(edge) = nodeId \/ getTargetId(edge) = nodeId

\* ------------------------------------------------------------------------
\* Graph: the operations as functions of the store g
\* ------------------------------------------------------------------------

hasNode(g, nodeId) == nodeId \in DOMAIN g.nodesMap_

\* What Map.get gives for a key the map does not hold.
Undefined == "undefined"

getNode(g, nodeId) ==
  IF nodeId \in DOMAIN g.nodesMap_ THEN g.nodesMap_[nodeId] ELSE Undefined

getNodes(g) == g.nodes_

hasEdge(g, edgeId) == \E i \in 1..Len(g.edgesMap_) : g.edgesMap_[i].id = edgeId

getEdges(g) == g.edgesMap_

\* degree(nodeId) on a cache miss: the count over getEdges().
countEdges(g, nodeId) ==
  Cardinality({i \in 1..Len(g.edgesMap_) :
                 isConnectedToNode(g.edgesMap_[i], nodeId)})

\* degree(nodeId): the returned number and the store with the cache filled.
degree(g, nodeId) ==
  IF nodeId \in DOMAIN g.degreeCache_
  THEN [g |-> g, ret |-> g.degreeCache_[nodeId]]
  ELSE [g |-> [g EXCEPT !.degreeCache_ =
                          MapSet(@, nodeId, countEdges(g, nodeId))],
        ret |-> countEdges(g, nodeId)]

\* getConnectedEdges(nodeId): the returned ids and the store with the pruned
\* list written back.
getConnectedEdges(g, nodeId) ==
  IF nodeId \notin DOMAIN g.connectedEdges_
  THEN [g |-> g, ret |-> <<>>]
  ELSE LET keep(e) == hasEdge(g, e.id)
           newEdges == SelectSeq(g.connectedEdges_[nodeId], keep)
       IN  [g |-> [g EXCEPT !.connectedEdges_ = MapSet(@, nodeId, newEdges)],
            ret |-> ids(newEdges)]

\* addEdgeConnection_ that keeps a list only for ids that have a node.
addEdgeConnectionNeedsNode(g, edge, nodeId) ==
  IF nodeId \notin DOMAIN g.nodesMap_ THEN g
  ELSE LET list == IF nodeId \in DOMAIN g.connectedEdges_
                   THEN g.connectedEdges_[nodeId] ELSE <<>>
       IN  [g EXCEPT !.connectedEdges_ = MapSet(@, nodeId, Append(list, edge))]

addEdgeConnection_(g, edge, nodeId) ==
  IF nodeId \in DOMAIN g.connectedEdges_
  THEN [g EXCEPT !.connectedEdges_ =
                   MapSet(@, nodeId, Append(@[nodeId], edge))]
  ELSE [g EXCEPT !.connectedEdges_ = MapSet(@, nodeId, <<edge>>)]

\* addNode(node): throws when the id is present.
addNode(g, node) ==
  IF hasNode(g, node)
  THEN [g |-> g, threw |-> TRUE]
  ELSE [g |-> [g EXCEPT !.nodes_ = Append(@, node),
                        !.nodesMap_ = MapSet(@, node, node)],
        threw |-> FALSE]

\* addEdge with the degree cache invalidated before the duplicate check.
addEdgeInvalidatesFirst(g, edge) ==
  LET g0 == [g EXCEPT !.degreeCache_ =
                    MapDelete(MapDelete(@, edge.source), edge.target)]
  IN  IF \E i \in 1..Len(g.edgesMap_) : g.edgesMap_[i].id = edge.id
      THEN [g |-> g0, threw |-> TRUE]
      ELSE LET g1 == [g0 EXCEPT !.edgesMap_ = Append(@, edge)]
               src == IF edge.source \in DOMAIN g1.connectedEdges_
                      THEN g1.connectedEdges_[edge.source] ELSE <<>>
               g2 == [g1 EXCEPT !.connectedEdges_ =
                        MapSet(@, edge.source, Append(src, edge))]
               tgt == IF edge.target \in DOMAIN g2.connectedEdges_
                      THEN g2.connectedEdges_[edge.target] ELSE <<>>
               g3 == [g2 EXCEPT !.connectedEdges_ =
                        MapSet(@, edge.target, Append(tgt, edge))]
           IN  [g |-> g3, threw |-> FALSE]

\* addEdge(edge): throws when the id is present.
addEdge(g, edge) ==
  IF hasEdge(g, edge.id)
  THEN [g |-> g, threw |-> TRUE]
  ELSE LET g1 == [g EXCEPT !.edgesMap_ = Append(@, edge)]
           g2 == [g1 EXCEPT !.degreeCache_ =
                    MapDelete(MapDelete(@, getSourceId(edge)),
                              getTargetId(edge))]
           g3 == addEdgeConnection_(g2, edge, getSourceId(edge))
           g4 == addEdgeConnection_(g3, edge, getTargetId(edge))
       IN  [g |-> g4, threw |-> FALSE]

\* removeEdge(edgeId): getEdge(edgeId).destroy() throws a TypeError when the
\* edge is absent, before anything is changed.
removeEdge(g, edgeId) ==
  IF ~hasEdge(g, edgeId)
  THEN [g |-> g, threw |-> TRUE]
  ELSE LET keep(e) == e.id # edgeId
       IN  [g |-> [g EXCEPT !.edgesMap_ = SelectSeq(@, keep)], threw |-> FALSE]

\* edgeIds.forEach(edgeId => this.removeEdge(edgeId)): stops at the first
\* call that throws.
RECURSIVE removeEdges(_, _)
removeEdges(g, edgeIds) ==
  IF edgeIds = <<>> THEN [g |-> g, threw |-> FALSE]
  ELSE LET r == removeEdge(g, Head(edgeIds))
       IN  IF r.threw THEN r ELSE removeEdges(r.g, Tail(edgeIds))

\* removeNode(nodeId): this.getNode(nodeId).destroy() throws a TypeError when
\* the node is absent, after the splice.
removeNode(g, nodeId) ==
  LET r1 == getConnectedEdges(g, nodeId)
      r2 == removeEdges(r1.g, r1.ret)
  IN  IF r2.threw THEN r2
      ELSE LET g3 == [r2.g EXCEPT !.nodes_ =
                        splice(@, findIndex(@, nodeId))]
           IN  IF getNode(g3, nodeId) = Undefined
               THEN [g |-> g3, threw |-> TRUE]
               ELSE [g |-> [g3 EXCEPT
                              !.nodesMap_ = MapDelete(@, nodeId),
                              !.degreeCache_ = MapDelete(@, nodeId),
                              !.connectedEdges_ = MapDelete(@, nodeId)],
                     threw |-> FALSE]

\* clear() without this.degreeCache_.clear().
clearKeepsDegreeCache(g) ==
  [g EXCEPT !.nodes_ = <<>>,
            !.nodesMap_ = EmptyMap,
            !.edgesMap_ = <<>>]

\* clear(): the callbacks only destroy the rendering handles.
clear(g) ==
  [g EXCEPT !.nodes_ = <<>>,
            !.nodesMap_ = EmptyMap,
            !.degreeCache_ = EmptyMap,
            !.edgesMap_ = <<>>]

\* forEachNode(callback) with the callback the builders pass:
\*   node => { if (sel(node)) this.removeNode(node.id); }
\* from index i down; visited lists the nodes the callback was invoked on.
RECURSIVE forEachNode(_, _, _, _)
forEachNode(g, i, sel, visited) ==
  IF i < 1 \/ i > Len(g.nodes_)
  THEN [g |-> g, threw |-> FALSE, visited |-> visited]
  ELSE LET node == g.nodes_[i]
           seen == Append(visited, node)
       IN  IF node \notin sel
           THEN forEachNode(g, i - 1, sel, seen)
           ELSE LET r == removeNode(g, node)
                IN  IF r.threw
                    THEN [g |-> r.g, threw |-> TRUE, visited |-> seen]
                    ELSE forEachNode(r.g, i - 1, sel, seen)

\* forEachEdge(callback) with the callback
\*   edge => { if (sel(edge)) this.removeEdge(edge.id); }
\* over the copy edges = getEdges(), from index i down.
RECURSIVE forEachEdge(_, _, _, _, _)
forEachEdge(g, edges, i, sel, visited) ==
  IF i < 1 \/ i > Len(edges)
  THEN [g |-> g, threw |-> FALSE, visited |-> visited]
  ELSE LET edge == edges[i]
           seen == Append(visited, edge.id)
       IN  IF edge.id \notin sel
           THEN forEachEdge(g, edges, i - 1, sel, seen)
           ELSE LET r == removeEdge(g, edge.id)
                IN  IF r.threw
                    THEN [g |-> r.g, threw |-> TRUE, visited |-> seen]
                    ELSE forEachEdge(r.g, edges, i - 1, sel, seen)

\* ------------------------------------------------------------------------
\* The state machine
\* ------------------------------------------------------------------------

\* The record of a call: op and id name the call and its argument, had tells
\* whether the id was present (hasNode/hasEdge) when the call started, threw
\* whether it ended with an exception; sel and visited describe a forEach
\* call (the ids its callback removes, the ids it was invoked on, in order).
Call(op, id, had, threw) ==
  [op |-> op, id |-> id, had |-> had, threw |-> threw,
   sel |-> {}, visited |-> <<>>]

\* The store takes the value g.
Becomes(g) ==
  /\ nodes_' = g.nodes_
  /\ nodesMap_' = g.nodesMap_
  /\ edgesMap_' = g.edgesMap_
  /\ degreeCache_' = g.degreeCache_
  /\ connectedEdges_' = g.connectedEdges_

\* The caller holds no array.
NoArray == [kind |-> "none", copy |-> <<>>]

\* No adapter or query has been called.
NoAnswer == [op |-> "none"]

\* new Graph()
Init ==
  /\ nodes_ = <<>>
  /\ nodesMap_ = EmptyMap
  /\ edgesMap_ = <<>>
  /\ degreeCache_ = EmptyMap
  /\ connectedEdges_ = EmptyMap
  /\ last = Call("new", "", FALSE, FALSE)
  /\ refNodes = {}
  /\ refEdges = {}
  /\ held = NoArray
  /\ answer = NoAnswer

\* The incident-edge list of nodeId has room for k more entries.
HasRoom(nodeId, k) ==
  nodeId \in DOMAIN connectedEdges_ =>
    Len(connectedEdges_[nodeId]) + k <= MaxIncident

\* ---- the calls: what each does to the store ----

CallAddNode(node) ==
  LET r == addNode(G, node)
  IN  /\ Becomes(r.g)
      /\ last' = Call("addNode", node, hasNode(G, node), r.threw)

CallRemoveNode(nodeId) ==
  LET r == removeNode(G, nodeId)
  IN  /\ Becomes(r.g)
      /\ last' = Call("removeNode", nodeId, hasNode(G, nodeId), r.threw)

CallAddEdge(edge) ==
  LET r == addEdge(G, edge)
  IN  /\ HasRoom(getSourceId(edge),
                 IF getSourceId(edge) = getTargetId(edge) THEN 2 ELSE 1)
      /\ HasRoom(getTargetId(edge), 1)
      /\ Becomes(r.g)
      /\ last' = Call("addEdge", edge.id, hasEdge(G, edge.id), r.threw)

CallRemoveEdge(edgeId) ==
  LET r == removeEdge(G, edgeId)
  IN  /\ Becomes(r.g)
      /\ last' = Call("removeEdge", edgeId, hasEdge(G, edgeId), r.threw)

CallDegree(nodeId) ==
  /\ Becomes(degree(G, nodeId).g)
  /\ last' = Call("degree", nodeId, hasNode(G, nodeId), FALSE)

CallGetConnectedEdges(nodeId) ==
  /\ Becomes(getConnectedEdges(G, nodeId).g)
  /\ last' = Call("getConnectedEdges", nodeId, hasNode(G, nodeId), FALSE)

CallClear ==
  /\ Becomes(clear(G))
  /\ last' = Call("clear", "", FALSE, FALSE)

CallForEachNode(sel) ==
  LET r == forEachNode(G, Len(nodes_), sel, <<>>)
  IN  /\ Becomes(r.g)
      /\ last' = [Call("forEachNode", "", FALSE, r.threw)
                    EXCEPT !.sel = sel, !.visited = r.visited]

CallForEachEdge(sel) ==
  LET r == forEachEdge(G, getEdges(G), Len(getEdges(G)), sel, <<>>)
  IN  /\ Becomes(r.g)
      /\ last' = [Call("forEachEdge", "", FALSE, r.threw)
                    EXCEPT !.sel = sel, !.visited = r.visited]

\* ---- Spec: a builder calling the store ----

Plain == UNCHANGED <<refNodes, refEdges, held, answer>>

AddNode(node) == CallAddNode(node) /\ Plain

RemoveNode(nodeId) == CallRemoveNode(nodeId) /\ Plain

AddEdge(edge) == CallAddEdge(edge) /\ Plain

RemoveEdge(edgeId) == CallRemoveEdge(edgeId) /\ Plain

Degree(nodeId) == CallDegree(nodeId) /\ Plain

GetConnectedEdges(nodeId) == CallGetConnectedEdges(nodeId) /\ Plain

Clear == CallClear /\ Plain

ForEachNode(sel) == CallForEachNode(sel) /\ Plain

ForEachEdge(sel) == CallForEachEdge(sel) /\ Plain

Next ==
  \/ \E node \in NodeIds : AddNode(node)
  \/ \E nodeId \in NodeIds : RemoveNode(nodeId)
  \/ \E edge \in EdgeInputs : AddEdge(edge)
  \/ \E edgeId \in EdgeIds : RemoveEdge(edgeId)
  \/ \E nodeId \in NodeIds : Degree(nodeId)
  \/ \E nodeId \in NodeIds : GetConnectedEdges(nodeId)
  \/ Clear
  \/ \E sel \in SUBSET NodeIds : ForEachNode(sel)
  \/ \E sel \in SUBSET EdgeIds : ForEachEdge(sel)

Spec == Init /\ [][Next]_vars

\* ---- SpecRef: calls that never insert an id that is present, replayed on
\* ---- a reference pair of sets

RefAddNode(node) ==
  /\ node \notin refNodes
  /\ ~hasNode(G, node)
  /\ CallAddNode(node)
  /\ refNodes' = refNodes \cup {node}
  /\ UNCHANGED <<refEdges, held, answer>>

RefRemoveNode(nodeId) ==
  /\ CallRemoveNode(nodeId)
  /\ refNodes' = refNodes \ {nodeId}
  /\ refEdges' = {e \in refEdges : ~isConnectedToNode(e, nodeId)}
  /\ UNCHANGED <<held, answer>>

RefAddEdge(edge) ==
  /\ \A e \in refEdges : e.id # edge.id
  /\ ~hasEdge(G, edge.id)
  /\ CallAddEdge(edge)
  /\ refEdges' = refEdges \cup {edge}
  /\ UNCHANGED <<refNodes, held, answer>>

RefRemoveEdge(edgeId) ==
  /\ CallRemoveEdge(edgeId)
  /\ refEdges' = {e \in refEdges : e.id # edgeId}
  /\ UNCHANGED <<refNodes, held, answer>>

RefGetConnectedEdges(nodeId) ==
  /\ CallGetConnectedEdges(nodeId)
  /\ UNCHANGED <<refNodes, refEdges, held, answer>>

NextRef ==
  \/ \E node \in NodeIds : RefAddNode(node)
  \/ \E nodeId \in NodeIds : RefRemoveNode(nodeId)
  \/ \E edge \in EdgeInputs : RefAddEdge(edge)
  \/ \E edgeId \in EdgeIds : RefRemoveEdge(edgeId)
  \/ \E nodeId \in NodeIds : RefGetConnectedEdges(nodeId)

SpecRef == Init /\ [][NextRef]_vars

\* ---- SpecCaller: a caller that keeps the array getNodes() / getEdges()
\* ---- returned and changes its membership

\* getNodes() returns this.nodes_ itself: the caller's array is the store's.
GetNodes ==
  /\ held' = [kind |-> "nodes", copy |-> <<>>]
  /\ last' = Call("getNodes", "", FALSE, FALSE)
  /\ UNCHANGED <<nodes_, nodesMap_, edgesMap_, degreeCache_, connectedEdges_,
                 refNodes, refEdges, answer>>

\* getEdges() returns a new array [...this.edgesMap_.values()].
GetEdges ==
  /\ held' = [kind |-> "edges", copy |-> ids(getEdges(G))]
  /\ last' = Call("getEdges", "", FALSE, FALSE)
  /\ UNCHANGED <<nodes_, nodesMap_, edgesMap_, degreeCache_, connectedEdges_,
                 refNodes, refEdges, answer>>

\* What the caller does to the array a it holds: a.pop(), a.reverse(),
\* a.push(x).
Mutated(a, how, x) ==
  CASE how = "pop" -> SubSeq(a, 1, Len(a) - 1)
    [] how = "reverse" -> [i \in 1..Len(a) |-> a[Len(a) + 1 - i]]
    [] how = "push" -> Append(a, x)

\* The caller changes the array it holds; what it pushes is a node or edge
\* it made itself.
CallerMutates(how) ==
  /\ held.kind # "none"
  /\ last' = Call("mutate", held.kind, FALSE, FALSE)
  /\ IF held.kind = "nodes"
     THEN /\ how = "push" => Len(nodes_) < MaxHeld
          /\ nodes_' = Mutated(nodes_, how, "B")
          /\ UNCHANGED held
     ELSE /\ how = "push" => Len(held.copy) < MaxHeld
          /\ held' = [held EXCEPT !.copy = Mutated(@, how, "e2")]
          /\ UNCHANGED nodes_
  /\ UNCHANGED <<nodesMap_, edgesMap_, degreeCache_, connectedEdges_,
                 refNodes, refEdges, answer>>

NextCaller ==
  \/ \E node \in NodeIds : AddNode(node)
  \/ \E edge \in EdgeInputs : AddEdge(edge)
  \/ GetNodes
  \/ GetEdges
  \/ \E how \in {"pop", "reverse", "push"} : CallerMutates(how)

SpecCaller == Init /\ [][NextCaller]_vars

\* ------------------------------------------------------------------------
\* Properties of the graph store
\* ------------------------------------------------------------------------

\* The edges in the store, as a set.
Edges == Range(edgesMap_)

\* The edges in the store whose source or target is nodeId.
Incident(nodeId) == {e \in Edges : e.source = nodeId \/ e.target = nodeId}

\* A sequence holds no element twice.
NoRepeats(s) == \A i, j \in 1..Len(s) : s[i] = s[j] => i = j

\* How often x occurs in s.
Occurrences(s, x) == Cardinality({i \in 1..Len(s) : s[i] = x})

\* The five fields of the store are the same after the step.
StoreUnchanged ==
  UNCHANGED <<nodes_, nodesMap_, edgesMap_, degreeCache_, connectedEdges_>>

\* C1: in every reachable state degree(n) is the number of edges in the
\* store whose source or target is n.
C1_DegreeCountsIncidentEdges ==
  \A n \in NodeIds : degree(G, n).ret = Cardinality(Incident(n))

\* C2: under calls that never insert a present id, hasNode and hasEdge agree
\* with the reference sets obtained by replaying the calls.
C2_AgreesWithReference ==
  /\ \A id \in NodeIds : hasNode(G, id) <=> id \in refNodes
  /\ \A id \in EdgeIds : hasEdge(G, id) <=> \E e \in refEdges : e.id = id

\* C3: removeNode(n) of a present node completes; afterwards hasNode(n) is
\* false, no edge in the store is incident to n, and every edge that was not
\* incident to n is still in the store.
C3_RemoveNodeCascades ==
  [][ (last'.op = "removeNode" /\ hasNode(G, last'.id)) =>
        /\ ~last'.threw
        /\ last'.id \notin DOMAIN nodesMap_'
        /\ \A i \in 1..Len(edgesMap_') :
             ~isConnectedToNode(edgesMap_'[i], last'.id)
        /\ \A e \in Edges :
             ~isConnectedToNode(e, last'.id) =>
               \E i \in 1..Len(edgesMap_') : edgesMap_'[i] = e ]_vars

\* C4: in every reachable state the ids getConnectedEdges(n) returns are the
\* ids of the edges in the store whose source or target is n.
C4_ConnectedEdgesAreIncident ==
  \A n \in NodeIds :
    Range(getConnectedEdges(G, n).ret) = {e.id : e \in Incident(n)}

\* C5: addNode with a present node id and addEdge with a present edge id
\* throw and leave the store as it was, and with it every result of
\* getNodes, getEdges, getConnectedEdges and degree.
C5_DuplicateAddFailsCleanly ==
  [][ ( \/ last'.op = "addNode" /\ hasNode(G, last'.id)
        \/ last'.op = "addEdge" /\ hasEdge(G, last'.id) ) =>
        /\ last'.threw
        /\ StoreUnchanged
        /\ getNodes(G)' = getNodes(G)
        /\ getEdges(G)' = getEdges(G)
        /\ \A n \in NodeIds :
             /\ (getConnectedEdges(G, n).ret)' = getConnectedEdges(G, n).ret
             /\ (degree(G, n).ret)' = degree(G, n).ret ]_vars

\* C5's case: addEdge with a present id has thrown, in a store that holds
\* cached degrees and incident-edge lists.
C5_Witness ==
  /\ last.op = "addEdge" /\ last.had /\ last.threw
  /\ DOMAIN degreeCache_ # {}
  /\ \E n \in DOMAIN connectedEdges_ : connectedEdges_[n] # <<>>

\* C6: removeNode with an id that has no node does not fail and leaves
\* getNodes(), hasNode and the edge set as they were.
C6_RemoveAbsentNodeIsNoOp ==
  [][ (last'.op = "removeNode" /\ ~hasNode(G, last'.id)) =>
        /\ ~last'.threw
        /\ getNodes(G)' = getNodes(G)
        /\ nodesMap_' = nodesMap_
        /\ Edges' = Edges ]_vars

\* C7: a forEachNode whose callback removes the nodes it selects invokes the
\* callback exactly once for each node present at the start and leaves
\* exactly the nodes that were not selected; likewise forEachEdge.
C7_ForEachVisitsEachOnce ==
  [][ /\ last'.op = "forEachNode" =>
           /\ ~last'.threw
           /\ \A n \in NodeIds :
                Occurrences(last'.visited, n) = Occurrences(nodes_, n)
           /\ Range(getNodes(G)') = Range(getNodes(G)) \ last'.sel
      /\ last'.op = "forEachEdge" =>
           /\ ~last'.threw
           /\ \A id \in EdgeIds :
                Occurrences(last'.visited, id) = Occurrences(ids(edgesMap_), id)
           /\ Range(ids(edgesMap_')) = Range(ids(edgesMap_)) \ last'.sel ]_vars

\* C8: a caller changing the membership of the array it got from getNodes()
\* or getEdges() changes nothing in the store.
C8_ReturnedArrayIsDetached ==
  [][ last'.op = "mutate" =>
        /\ getNodes(G)' = getNodes(G)
        /\ nodesMap_' = nodesMap_
        /\ getEdges(G)' = getEdges(G) ]_vars

\* C9: after clear() getNodes() and getEdges() are empty, hasNode and hasEdge
\* are false, degree is 0 and getConnectedEdges is empty for every id.
C9_ClearEmptiesEverything ==
  last.op = "clear" =>
    /\ getNodes(G) = <<>>
    /\ getEdges(G) = <<>>
    /\ \A id \in NodeIds :
         /\ ~hasNode(G, id)
         /\ degree(G, id).ret = 0
         /\ getConnectedEdges(G, id).ret = <<>>
    /\ \A id \in EdgeIds : ~hasEdge(G, id)

\* C9's case: clear() has run on a store that held edges, whose
\* incident-edge lists are still there.
C9_Witness ==
  /\ last.op = "clear"
  /\ \E n \in DOMAIN connectedEdges_ : connectedEdges_[n] # <<>>

\* C10: in every reachable state getNodes() and getEdges() hold no id twice,
\* and an id is in getNodes() exactly when hasNode(id), with getNode(id) that
\* node.
C10_IdsUniqueAndIndexAgrees ==
  /\ NoRepeats(getNodes(G))
  /\ NoRepeats(ids(getEdges(G)))
  /\ \A id \in NodeIds :
       /\ id \in Range(getNodes(G)) <=> hasNode(G, id)
       /\ hasNode(G, id) => getNode(G, id) = id

getEdge(g, edgeId) ==
  IF hasEdge(g, edgeId)
  THEN g.edgesMap_[CHOOSE i \in 1..Len(g.edgesMap_) :
                     g.edgesMap_[i].id = edgeId]
  ELSE Undefined

\* An object a caller can hold: what it is, the node it is or wraps, and
\* which object it is (0: the one object the store or the universe holds
\* for that node; k > 0: the k-th object made since).
Item(kind, node, obj) == [kind |-> kind, node |-> node, obj |-> obj]

\* new QueryableNoteNode(graph, node)
QueryableNoteNode(node, obj) == Item("QueryableNoteNode", node, obj)

\* What graph.getNode(id) hands out: the Node itself, or undefined.
RawNode(node) ==
  IF node = Undefined THEN Item("undefined", Undefined, 0)
  ELSE Item("Node", node, 0)

\* x.getId() returns an id: x is a QueryableNode (whose getId() is ''), or
\* an adapter that wraps a node. Node has no getId, and an adapter around
\* undefined reads undefined.id.
answersGetId(x) ==
  \/ x.kind = "QueryableNode"
  \/ x.kind = "QueryableNoteNode" /\ x.node # Undefined

\* x.getId(), for an x that answers it.
getId(x) == IF x.kind = "QueryableNode" THEN "" ELSE x.node

\* new Set(array): the elements in order, each object once.
RECURSIVE SetOf(_)
SetOf(array) ==
  IF Len(array) = 0 THEN <<>>
  ELSE LET before == SetOf(SubSeq(array, 1, Len(array) - 1))
           x == array[Len(array)]
       IN  IF \E i \in 1..Len(before) : before[i] = x THEN before
           ELSE Append(before, x)

\* QueryableNoteNode.connectsToNode(node), for the adapter of thisId and
\* node.getId() = otherId.
connectsToNodeAnyDirection(g, thisId, otherId) ==
  LET r == getConnectedEdges(g, thisId)
  IN  [g |-> r.g,
       ret |-> \E i \in 1..Len(r.ret) :
                 \/ getTargetId(getEdge(r.g, r.ret[i])) = otherId
                 \/ getSourceId(getEdge(r.g, r.ret[i])) = otherId]

connectsToNode(g, thisId, otherId) ==
  LET r == getConnectedEdges(g, thisId)
      outgoing(edgeId) == getSourceId(getEdge(r.g, edgeId)) = thisId
      out == SelectSeq(r.ret, outgoing)
  IN  [g |-> r.g,
       ret |-> \E i \in 1..Len(out) :
                 getTargetId(getEdge(r.g, out[i])) = otherId]

\* QueryableNode.isConnectedToBy(node): node.connectsToNode(this)
isConnectedToBy(g, thisId, otherId) == connectsToNode(g, otherId, thisId)

\* QueryableNode.hasConnectionWith(node)
hasConnectionWith(g, thisId, otherId) ==
  LET a == connectsToNode(g, thisId, otherId)
      b == isConnectedToBy(a.g, thisId, otherId)
  IN  IF a.ret THEN a ELSE b

\* QueryableNoteNode.getNodesItConnectsTo(); the adapters it makes are the
\* objects from + 1, from + 2, ...
getNodesItConnectsTo(g, thisId, from) ==
  LET r == getConnectedEdges(g, thisId)
      outgoing(edgeId) == getSourceId(getEdge(r.g, edgeId)) = thisId
      out == SelectSeq(r.ret, outgoing)
  IN  [g |-> r.g,
       ret |-> SetOf([i \in 1..Len(out) |->
                 QueryableNoteNode(
                   getNode(r.g, getTargetId(getEdge(r.g, out[i]))),
                   from + i)])]

\* QueryableNoteNode.getConnectedNodes(): for an outgoing edge the target
\* Node as the store holds it, for an incoming edge a new adapter around the
\* source.
getConnectedNodes(g, thisId, from) ==
  LET r == getConnectedEdges(g, thisId)
      other(i) ==
        LET edge == getEdge(r.g, r.ret[i])
        IN  IF getSourceId(edge) = thisId
            THEN RawNode(getNode(r.g, getTargetId(edge)))
            ELSE QueryableNoteNode(getNode(r.g, getSourceId(edge)), from + i)
  IN  [g |-> r.g, ret |-> SetOf([i \in 1..Len(r.ret) |-> other(i)])]

\* The ids of the adapters of a sequence, as a set.
NodesOf(items) == {items[i].node : i \in 1..Len(items)}

\* ---- SpecAdapter: a builder changing the store and a query asking the
\* ---- adapters of its nodes

\* The last adapter call and what it returned: a boolean or a Set.
Asked(op, id, other, ret, items) ==
  [op |-> op, id |-> id, other |-> other, ret |-> ret, items |-> items]

\* The builder's call makes the last answer out of date.
Forgotten ==
  /\ answer' = NoAnswer
  /\ UNCHANGED <<refNodes, refEdges, held>>

ConnectsToNode(thisId, otherId) ==
  LET r == connectsToNode(G, thisId, otherId)
  IN  /\ Becomes(r.g)
      /\ answer' = Asked("connectsToNode", thisId, otherId, r.ret, <<>>)
      /\ UNCHANGED <<last, refNodes, refEdges, held>>

GetNodesItConnectsTo(thisId) ==
  LET r == getNodesItConnectsTo(G, thisId, 0)
  IN  /\ Becomes(r.g)
      /\ answer' = Asked("getNodesItConnectsTo", thisId, "", FALSE, r.ret)
      /\ UNCHANGED <<last, refNodes, refEdges, held>>

GetConnectedNodes(thisId) ==
  LET r == getConnectedNodes(G, thisId, 0)
  IN  /\ Becomes(r.g)
      /\ answer' = Asked("getConnectedNodes", thisId, "", FALSE, r.ret)
      /\ UNCHANGED <<last, refNodes, refEdges, held>>

NextAdapter ==
  \/ \E node \in NodeIds : CallAddNode(node) /\ Forgotten
  \/ \E edge \in EdgeInputs : CallAddEdge(edge) /\ Forgotten
  \/ \E edgeId \in EdgeIds : CallRemoveEdge(edgeId) /\ Forgotten
  \/ \E thisId, otherId \in NodeIds : ConnectsToNode(thisId, otherId)
  \/ \E thisId \in NodeIds : GetNodesItConnectsTo(thisId)
  \/ \E thisId \in NodeIds : GetConnectedNodes(thisId)

SpecAdapter == Init /\ [][NextAdapter]_vars

\* C18: in every state the store can reach and for every pair of adapters,
\* a.connectsToNode(b) is true exactly when the store holds an edge whose
\* source is a's id and whose target is b's id, a.isConnectedToBy(b) is
\* b.connectsToNode(a), and a.hasConnectionWith(b) is true exactly when an
\* edge joins the two ids in either direction.
C18_ConnectsToNodeIsDirected ==
  /\ \A a, b \in NodeIds :
       /\ connectsToNode(G, a, b).ret <=>
            \E e \in Edges : e.source = a /\ e.target = b
       /\ isConnectedToBy(G, a, b).ret <=> connectsToNode(G, b, a).ret
       /\ hasConnectionWith(G, a, b).ret <=>
            \E e \in Edges : \/ e.source = a /\ e.target = b
                             \/ e.source = b /\ e.target = a
  /\ answer.op = "connectsToNode" =>
       (answer.ret <=>
          \E e \in Edges : e.source = answer.id /\ e.target = answer.other)

\* An adapter was asked about a node that only has an edge towards it, and
\* answered no.
C18_Witness ==
  /\ answer.op = "connectsToNode"
  /\ ~answer.ret
  /\ answer.id # answer.other
  /\ \E e \in Edges : e.source = answer.other /\ e.target = answer.id
  /\ hasNode(G, answer.id) /\ hasNode(G, answer.other)

\* C19: every element of the set returned by getNodesItConnectsTo and by
\* getConnectedNodes is an adapter that answers getId(); the ids of the
\* first are the targets of the edges leaving this node, the ids of the
\* second the other ends of the edges that touch it.
C19_NeighboursAreAdapters ==
  /\ answer.op \in {"getNodesItConnectsTo", "getConnectedNodes"} =>
       \A i \in 1..Len(answer.items) : answersGetId(answer.items[i])
  /\ answer.op = "getNodesItConnectsTo" =>
       NodesOf(answer.items) =
         {e.target : e \in {x \in Edges : x.source = answer.id}}
  /\ answer.op = "getConnectedNodes" =>
       NodesOf(answer.items) =
         {IF e.source = answer.id THEN e.target ELSE e.source :
            e \in Incident(answer.id)}

\* ------------------------------------------------------------------------
\* Queries (src/query/queries): values, text and the four query classes
\* ------------------------------------------------------------------------

\* A string is the sequence of its characters.
\* JavaScript values: a string, a number, NaN, undefined; a query object is
\* a record whose t is its class.
Str(s) == [t |-> "string", str |-> s]

Num(n) == [t |-> "number", num |-> n]

NaN == [t |-> "NaN"]

Undef == [t |-> "undefined"]

QueryClasses == {"WithTitle", "WithTag", "InFolder", "WithinDegree"}

\* v is falsy: undefined, '', 0, NaN.
Falsy(v) == v \in {Undef, NaN, Str(<<>>), Num(0)}

\* String.contains(needle): needle occurs in hay.
contains(hay, needle) ==
  \E i \in 0..(Len(hay) - Len(needle)) :
    SubSeq(hay, i + 1, i + Len(needle)) = needle

Digits == <<"0", "1", "2", "3", "4", "5", "6", "7", "8", "9">>

\* The value of a digit character.
DigitValue(c) == (CHOOSE k \in 1..Len(Digits) : Digits[k] = c) - 1

\* The number the digits of str spell.
RECURSIVE DigitsValue(_)
DigitsValue(str) ==
  IF Len(str) = 0 THEN 0
  ELSE 10 * DigitsValue(SubSeq(str, 1, Len(str) - 1))
         + DigitValue(str[Len(str)])

\* Number(str) for a string: 0 for the empty string, the number its digits
\* spell, NaN for a text with another character.
StringToNumber(str) ==
  IF \A k \in 1..Len(str) : str[k] \in Range(Digits)
  THEN Num(DigitsValue(str))
  ELSE NaN

\* a == b: equal values of one type; a number and a string are compared as
\* numbers; undefined only equals undefined, NaN equals nothing, and two
\* objects are equal only when they are one object, which two queries built
\* apart never are.
LooseEq(a, b) ==
  IF a.t = b.t THEN a.t \in {"string", "number", "undefined"} /\ a = b
  ELSE IF a.t = "number" /\ b.t = "string" THEN a = StringToNumber(b.str)
  ELSE IF a.t = "string" /\ b.t = "number" THEN StringToNumber(a.str) = b
  ELSE FALSE

\* new WithTitle(title): this.title_ = title || ''
WithTitle(title) ==
  [t |-> "WithTitle", title_ |-> IF Falsy(title) THEN Str(<<>>) ELSE title]

\* new WithTag(tag): this.tag_ = tag || ''
WithTag(tag) ==
  [t |-> "WithTag", tag_ |-> IF Falsy(tag) THEN Str(<<>>) ELSE tag]

\* new InFolder(folder): this.folder_ = folder || ''
InFolder(folder) ==
  [t |-> "InFolder",
   folder_ |-> IF Falsy(folder) THEN Str(<<>>) ELSE folder]

\* new WithinDegree(degree, query)
WithinDegree(deg, query) ==
  [t |-> "WithinDegree", degree_ |-> deg, query_ |-> query]

\* An equals that does not compare the degree of two WithinDegree queries.
equalsIgnoringDegree(a, b) ==
  [ret |-> IF a.t = "WithinDegree" /\ b.t = "WithinDegree"
           THEN a.query_ = b.query_
           ELSE a = b,
   threw |-> FALSE]

\* a.equals(b): whether it returns a truthy value, and whether it throws
\* (a nested parameter that is truthy and has no equals method).
RECURSIVE equals(_, _)
equals(a, b) ==
  CASE a.t = "WithTitle" ->
         [ret |-> b.t = "WithTitle" /\ LooseEq(b.title_, a.title_),
          threw |-> FALSE]
    [] a.t = "WithTag" ->
         [ret |-> b.t = "WithTag" /\ LooseEq(b.tag_, a.tag_),
          threw |-> FALSE]
    [] a.t = "InFolder" ->
         [ret |-> b.t = "InFolder" /\ LooseEq(b.folder_, a.folder_),
          threw |-> FALSE]
    [] a.t = "WithinDegree" ->
         IF ~(b.t = "WithinDegree" /\ LooseEq(b.degree_, a.degree_))
         THEN [ret |-> FALSE, threw |-> FALSE]
         ELSE IF Falsy(b.query_) /\ Falsy(a.query_)
         THEN [ret |-> TRUE, threw |-> FALSE]
         ELSE IF Falsy(a.query_)
         THEN [ret |-> FALSE, threw |-> FALSE]
         ELSE IF a.query_.t \notin QueryClasses
         THEN [ret |-> FALSE, threw |-> TRUE]
         ELSE equals(a.query_, b.query_)

\* ---- the query builder (src/query/query-builder.js)

LowerCase ==
  <<"a", "b", "c", "d", "e", "f", "g", "h", "i", "j", "k", "l", "m",
    "n", "o", "p", "q", "r", "s", "t", "u", "v", "w", "x", "y", "z">>

UpperCase ==
  <<"A", "B", "C", "D", "E", "F", "G", "H", "I", "J", "K", "L", "M",
    "N", "O", "P", "Q", "R", "S", "T", "U", "V", "W", "X", "Y", "Z">>

\* c.toLowerCase() for a character c.
toLowerCase(c) ==
  IF \E k \in 1..Len(UpperCase) : UpperCase[k] = c
  THEN LowerCase[CHOOSE k \in 1..Len(UpperCase) : UpperCase[k] = c]
  ELSE c

\* isNaN(char) for one character: Number(char) is a number for a digit and
\* for white space (which it reads as 0), NaN for every other character.
isNaN(char) == char \notin Range(Digits) \cup {" ", "\t", "\n"}

\* str.substring(n)
substring(str, n) == SubSeq(str, n + 1, Len(str))

\* The length of the longest prefix of str whose characters are all in ok.
PrefixIn(str, ok) ==
  LET others == {i \in 1..Len(str) : str[i] \notin ok}
  IN  IF others = {} THEN Len(str)
      ELSE (CHOOSE i \in others : \A j \in others : i <= j) - 1

\* The length of the longest prefix of str with no character of stop.
PrefixNotIn(str, stop) ==
  LET stops == {i \in 1..Len(str) : str[i] \in stop}
  IN  IF stops = {} THEN Len(str)
      ELSE (CHOOSE i \in stops : \A j \in stops : i <= j) - 1

\* parseInt(str): white space is skipped, then an optional sign and the
\* digits that follow are read; NaN when no digit follows.
parseInt(str) ==
  LET body == substring(str, PrefixIn(str, {" ", "\t", "\n"}))
      signed == Len(body) > 0 /\ body[1] \in {"-", "+"}
      rest == IF signed THEN Tail(body) ELSE body
      n == PrefixIn(rest, Range(Digits))
  IN  IF n = 0 THEN NaN
      ELSE IF signed /\ body[1] = "-"
      THEN Num(0 - DigitsValue(SubSeq(rest, 1, n)))
      ELSE Num(DigitsValue(SubSeq(rest, 1, n)))

\* QUERY_MAP
QUERY_MAP ==
  [withtitle |-> "WithTitle", withtag |-> "WithTag",
   infolder |-> "InFolder", withindegree |-> "WithinDegree"]

\* The key a name of QUERY_MAP is spelled with.
KeyOf(key) ==
  CASE key = "withtitle" -> <<"w", "i", "t", "h", "t", "i", "t", "l", "e">>
    [] key = "withtag" -> <<"w", "i", "t", "h", "t", "a", "g">>
    [] key = "infolder" -> <<"i", "n", "f", "o", "l", "d", "e", "r">>
    [] key = "withindegree" ->
         <<"w", "i", "t", "h", "i", "n", "d", "e", "g", "r", "e", "e">>

\* A getQueryByName_ that gives WithTitle for a name that is not registered.
getQueryByNameOrTitle(name) ==
  LET isLetter(c) == c \in Range(LowerCase) \cup Range(UpperCase)
      letters == SelectSeq(name, isLetter)
      key == [k \in 1..Len(letters) |-> toLowerCase(letters[k])]
  IN  IF \E k \in DOMAIN QUERY_MAP : KeyOf(k) = key
      THEN QUERY_MAP[CHOOSE k \in DOMAIN QUERY_MAP : KeyOf(k) = key]
      ELSE "WithTitle"

\* getQueryByName_(name): the class registered under name without its
\* non-letters and in lower case, or undefined.
getQueryByName_(name) ==
  LET isLetter(c) == c \in Range(LowerCase) \cup Range(UpperCase)
      letters == SelectSeq(name, isLetter)
      key == [k \in 1..Len(letters) |-> toLowerCase(letters[k])]
  IN  IF \E k \in DOMAIN QUERY_MAP : KeyOf(k) = key
      THEN QUERY_MAP[CHOOSE k \in DOMAIN QUERY_MAP : KeyOf(k) = key]
      ELSE "undefined"

\* new queryConstructor(...val)
New(class, val) ==
  LET arg(k) == IF k <= Len(val) THEN val[k] ELSE Undef
  IN  CASE class = "WithTitle" -> WithTitle(arg(1))
        [] class = "WithTag" -> WithTag(arg(1))
        [] class = "InFolder" -> InFolder(arg(1))
        [] class = "WithinDegree" -> WithinDegree(arg(1), arg(2))

\* What a parse function returns: {val, length}, or undefined.
Parsed(val, length) == [val |-> val, length |-> length]

\* The number of times c occurs in str.
Count(str, c) == Cardinality({i \in 1..Len(str) : str[i] = c})

\* A parseStringLit_ whose count leaves out the two quotes.
parseStringLitShortCount(str) ==
  IF "\"" \notin Range(str) THEN Undef
  ELSE LET open == 1 + PrefixNotIn(str, {"\""})
           n == PrefixNotIn(substring(str, open), {"\""})
       IN  Parsed(Str(SubSeq(str, open + 1, open + n)), n)

\* A parseStringLit_ that needs the closing quote.
parseStringLitClosedOnly(str) ==
  IF Count(str, "\"") < 2 THEN Undef
  ELSE LET open == 1 + PrefixNotIn(str, {"\""})
           n == PrefixNotIn(substring(str, open), {"\""})
       IN  Parsed(Str(SubSeq(str, open + 1, open + n)), n + 2)

\* parseStringLit_(str): str.match(/"([^"]*)("|$)/), the text between the
\* first quote and the next quote or the end.
parseStringLit_(str) ==
  IF "\"" \notin Range(str) THEN Undef
  ELSE LET open == 1 + PrefixNotIn(str, {"\""})
           n == PrefixNotIn(substring(str, open), {"\""})
       IN  Parsed(Str(SubSeq(str, open + 1, open + n)), n + 2)

\* parseNumberLit_(str): str.match(/(.+?)( |,|\)|$)/), the first character
\* and what follows it up to the next space, comma, closing parenthesis or
\* the end (a text is one line).
parseNumberLit_(str) ==
  IF Len(str) = 0 THEN Undef
  ELSE LET n == 1 + PrefixNotIn(Tail(str), {" ", ",", ")"})
       IN  Parsed(parseInt(SubSeq(str, 1, n)), n)

\* parseQuery_(str) and parseParams_(str) call each other.
RECURSIVE parseQuery_(_)

\* One pass of the body of the while loop of parseParams_ at position i:
\* the value that is pushed, or undefined, and the position after the pass.
\* The separator branch adds one to i and, as it leaves returnVal undefined,
\* the else branch below it adds one more.
loopStep(str, i) ==
  LET char == str[i + 1]
      separator == char = "," \/ char = " "
      returnVal ==
        IF char = "\"" THEN parseStringLit_(substring(str, i))
        ELSE IF separator THEN Undef
        ELSE IF ~isNaN(char) THEN parseNumberLit_(substring(str, i))
        ELSE parseQuery_(substring(str, i))
      next == IF separator THEN i + 1 ELSE i
  IN  IF returnVal # Undef
      THEN [pushed |-> <<returnVal.val>>, i |-> next + returnVal.length]
      ELSE [pushed |-> <<>>, i |-> next + 1]

\* The while loop of parseParams_ from position i on, params being the
\* values pushed so far.
RECURSIVE paramsFrom(_, _, _)
paramsFrom(str, i, params) ==
  IF ~(i < Len(str) /\ str[i + 1] # ")") THEN Parsed(params, i + 1)
  ELSE LET pass == loopStep(str, i)
       IN  paramsFrom(str, pass.i, params \o pass.pushed)

\* parseParams_(str)
parseParams_(str) == paramsFrom(str, 0, <<>>)

\* A parseQuery_ whose count leaves out the opening parenthesis.
parseQueryShortCount(str) ==
  LET start == PrefixIn(str, {"("})
      name == SubSeq(str, start + 1,
                     start + PrefixNotIn(substring(str, start), {"("}))
  IN  IF Len(name) = 0 THEN Undef
      ELSE IF getQueryByName_(name) = "undefined" THEN Undef
      ELSE LET r == parseParams_(substring(str, Len(name) + 1))
           IN  Parsed(New(getQueryByName_(name), r.val),
                      Len(name) + r.length)

\* tokens[1] of str.match(/([^(]+)(\(|$)/): the first run of characters
\* other than '(' , empty when there is no match.
tokensOf(str) ==
  LET start == PrefixIn(str, {"("})
  IN  SubSeq(str, start + 1,
             start + PrefixNotIn(substring(str, start), {"("}))

\* str.substring(tokens[1].length + 1): what parseQuery_ hands to
\* parseParams_.
paramsOf(str) == substring(str, Len(tokensOf(str)) + 1)

\* parseQuery_(str): what follows tokens[1].length + 1 characters of str is
\* parsed as the parameters.
parseQuery_(str) ==
  LET name == tokensOf(str)
      queryConstructor == getQueryByName_(name)
  IN  IF Len(name) = 0 THEN Undef
      ELSE IF queryConstructor = "undefined" THEN Undef
      ELSE LET r == parseParams_(paramsOf(str))
           IN  Parsed(New(queryConstructor, r.val),
                      (Len(name) + 1) + r.length)

\* createQuery(str)
createQuery(str) ==
  LET result == parseQuery_(str)
  IN  IF result # Undef THEN result.val ELSE Undef

\* ---- queries as they are written

\* A call as it is written: the name of a class and the arguments, each a
\* string, a number or a call.
Written(name, args) == [name |-> name, args |-> args]

IsCall(x) == "name" \in DOMAIN x

\* The name of a class, as text.
NameText(class) ==
  CASE class = "WithTitle" -> <<"W", "i", "t", "h", "T", "i", "t", "l", "e">>
    [] class = "WithTag" -> <<"W", "i", "t", "h", "T", "a", "g">>
    [] class = "InFolder" -> <<"I", "n", "F", "o", "l", "d", "e", "r">>
    [] class = "WithinDegree" ->
         <<"W", "i", "t", "h", "i", "n", "D", "e", "g", "r", "e", "e">>
    [] class = "Bogus" -> <<"B", "o", "g", "u", "s">>

\* The decimal digits of a number n >= 0.
RECURSIVE DigitsOf(_)
DigitsOf(n) ==
  IF n < 10 THEN <<Digits[n + 1]>>
  ELSE DigitsOf(n \div 10) \o <<Digits[(n % 10) + 1]>>

\* An integer literal: the digits, after a minus sign for a negative number.
NumberText(n) == IF n < 0 THEN <<"-">> \o DigitsOf(0 - n) ELSE DigitsOf(n)

\* The text of a value: "..." for a string, the digits of a number, and
\* Name(arg1, arg2, ...) for a call.
RECURSIVE ToText(_)
ToText(x) ==
  LET RECURSIVE list(_, _)
      list(args, k) ==
        IF k > Len(args) THEN <<>>
        ELSE (IF k > 1 THEN <<",", " ">> ELSE <<>>)
               \o ToText(args[k]) \o list(args, k + 1)
  IN  IF IsCall(x)
      THEN NameText(x.name) \o <<"(">> \o list(x.args, 1) \o <<")">>
      ELSE IF x.t = "string" THEN <<"\"">> \o x.str \o <<"\"">>
      ELSE NumberText(x.num)

\* The value written: new Name(arg1, arg2, ...) for a call.
RECURSIVE Build(_)
Build(x) ==
  IF IsCall(x)
  THEN New(x.name, [k \in 1..Len(x.args) |-> Build(x.args[k])])
  ELSE x

\* ---- the notes of a vault and the stores built from them

\* The notes: file name, path and tags (without the octothorpe) of each.
NoteIds == {"S", "T", "X", "Y"}

NoteOrder == <<"S", "T", "X", "Y">>

name_ ==
  [n \in NoteIds |->
     CASE n = "S" -> <<"s", "1">>
       [] n = "T" -> <<"s", "2">>
       [] n = "X" -> <<"x">>
       [] n = "Y" -> <<"a">>]

path_ ==
  [n \in NoteIds |->
     CASE n = "S" -> <<"a", "/", "s", "1">>
       [] n = "T" -> <<"b", "/", "s", "2">>
       [] n = "X" -> <<"a", "/", "b", "/", "x">>
       [] n = "Y" -> <<"a">>]

tags_ ==
  [n \in NoteIds |->
     CASE n = "S" -> <<<<"t">>>>
       [] n = "T" -> <<<<"t">>, <<"s">>>>
       [] n = "X" -> <<>>
       [] n = "Y" -> <<<<"a">>>>]

\* NoteNode.getTitle()
NoteNode_getTitle(n) == name_[n]

\* NoteNode.getFolderPath(): path_.match(/(.+)\//), the text before the last
\* slash that has a character before it.
NoteNode_getFolderPath(n) ==
  LET slashes == {i \in 2..Len(path_[n]) : path_[n][i] = "/"}
  IN  IF slashes = {} THEN <<>>
      ELSE SubSeq(path_[n], 1,
                  (CHOOSE i \in slashes : \A j \in slashes : j <= i) - 1)

\* NoteNode.getTags()
NoteNode_getTags(n) == tags_[n]

\* The edges a vault's links can give.
QueryEdges ==
  <<[id |-> "e1", source |-> "S", target |-> "X"],
    [id |-> "e2", source |-> "X", target |-> "Y"],
    [id |-> "e3", source |-> "X", target |-> "S"],
    [id |-> "e4", source |-> "X", target |-> "T"],
    [id |-> "e5", source |-> "Y", target |-> "X"],
    [id |-> "e6", source |-> "X", target |-> "S"]>>

\* new Graph()
NewGraph ==
  [nodes_ |-> <<>>, nodesMap_ |-> EmptyMap, edgesMap_ |-> <<>>,
   degreeCache_ |-> EmptyMap, connectedEdges_ |-> EmptyMap]

\* The store after addNode for the first k notes.
RECURSIVE WithNodes(_)
WithNodes(k) ==
  IF k = 0 THEN NewGraph ELSE addNode(WithNodes(k - 1), NoteOrder[k]).g

\* The store after addNode for every note and addEdge for the first k
\* edges that are in chosen.
RECURSIVE Built(_, _)
Built(chosen, k) ==
  IF k = 0 THEN WithNodes(Len(NoteOrder))
  ELSE IF QueryEdges[k] \in chosen
       THEN addEdge(Built(chosen, k - 1), QueryEdges[k]).g
       ELSE Built(chosen, k - 1)

\* ---- running a query over a universe

\* QueryableNoteNode.getTitle(): this.node_.getTitle()
QueryableNoteNode_getTitle(x) == NoteNode_getTitle(x.node)

\* QueryableNoteNode.getFolderPath(): this.node_.getTitle()
QueryableNoteNode_getFolderPath(x) == NoteNode_getTitle(x.node)

\* QueryableNoteNode.getTags(): this.node_.getTags()
QueryableNoteNode_getTags(x) == NoteNode_getTags(x.node)

\* String(v), the text a value is searched as: a string is itself, a number
\* its digits, an object '[object Object]'.
StringOf(v) ==
  CASE v.t = "string" -> v.str
    [] v.t = "number" -> NumberText(v.num)
    [] v.t = "undefined" ->
         <<"u", "n", "d", "e", "f", "i", "n", "e", "d">>
    [] v.t = "NaN" -> <<"N", "a", "N">>
    [] OTHER ->
         <<"[", "o", "b", "j", "e", "c", "t", " ",
           "O", "b", "j", "e", "c", "t", "]">>

\* What a run returns: the Set, or that it threw.
Returned(items) == [items |-> items, threw |-> FALSE]

Thrown == [items |-> <<>>, threw |-> TRUE]

\* A WithTitle.run that lets only notes through.
runWithTitleNotesOnly(query, universe) ==
  LET keep(node) ==
        /\ node.kind = "QueryableNoteNode"
        /\ contains(QueryableNoteNode_getTitle(node), StringOf(query.title_))
  IN  Returned(SelectSeq(universe, keep))

\* WithTitle.run(universe)
runWithTitle(query, universe) ==
  LET keep(node) ==
        node.kind = "QueryableNoteNode" =>
          contains(QueryableNoteNode_getTitle(node), StringOf(query.title_))
  IN  Returned(SelectSeq(universe, keep))

\* WithTag.run(universe)
runWithTag(query, universe) ==
  LET keep(node) ==
        node.kind = "QueryableNoteNode" =>
          \E i \in 1..Len(QueryableNoteNode_getTags(node)) :
            LooseEq(Str(QueryableNoteNode_getTags(node)[i]), query.tag_)
  IN  Returned(SelectSeq(universe, keep))

\* InFolder.run(universe)
runInFolder(query, universe) ==
  LET keep(node) ==
        node.kind = "QueryableNoteNode" =>
          contains(QueryableNoteNode_getFolderPath(node), StringOf(query.folder_))
  IN  Returned(SelectSeq(universe, keep))

\* i < v for a loop counter i and a value v: a string is read as the number
\* it spells; false when v is no number (NaN, undefined, an object).
LessThan(i, v) ==
  LET n == IF v.t = "string" THEN StringToNumber(v.str) ELSE v
  IN  n.t = "number" /\ i < n.num

\* v < 1 for a value v.
LessThanOne(v) == v.t = "number" /\ v.num < 1

\* node.getConnectedNodes() for a member of a Set of queryable nodes.
connectedNodesOf(g, node) ==
  IF node.kind # "QueryableNoteNode" THEN Returned(<<>>)
  ELSE IF node.node = Undefined THEN Thrown
  ELSE Returned(getConnectedNodes(g, node.node, 0).ret)

\* The body of the inner forEach of WithinDegree.run from the k-th connected
\* node on: cNode.getId() throws for an element that is no adapter; a node
\* that passes the tests is added to filteredNodes (acc.items), where it is
\* a new object, numbered by its place. The first loop of run tests
\* queryNodeIds only, the later ones filteredNodeIds too.
RECURSIVE addConnected(_, _, _, _, _)
addConnected(cNodes, k, queryNodeIds, acc, checkFiltered) ==
  IF acc.threw \/ k > Len(cNodes) THEN acc
  ELSE IF ~answersGetId(cNodes[k]) THEN Thrown
  ELSE LET id == getId(cNodes[k])
           skip == \/ id \in queryNodeIds
                   \/ checkFiltered /\ id \in NodesOf(acc.items)
       IN  addConnected(cNodes, k + 1, queryNodeIds,
                        IF skip THEN acc
                        ELSE Returned(Append(acc.items,
                               [cNodes[k] EXCEPT !.obj = Len(acc.items) + 1])),
                        checkFiltered)

\* The outer forEach, from the j-th node on.
RECURSIVE expand(_, _, _, _, _, _)
expand(g, nodes, j, queryNodeIds, acc, checkFiltered) ==
  IF acc.threw \/ j > Len(nodes) THEN acc
  ELSE LET c == connectedNodesOf(g, nodes[j])
       IN  IF c.threw THEN Thrown
           ELSE expand(g, nodes, j + 1, queryNodeIds,
                       addConnected(c.items, 1, queryNodeIds, acc,
                                    checkFiltered),
                       checkFiltered)

\* for (let i = 1; i < this.degree_; i++) { ... }, from i on.
RECURSIVE further(_, _, _, _, _)
further(g, i, degree_, queryNodeIds, acc) ==
  IF acc.threw \/ ~LessThan(i, degree_) THEN acc
  ELSE further(g, i + 1, degree_, queryNodeIds,
               expand(g, acc.items, 1, queryNodeIds, acc, TRUE))

\* query.run(universe). WithinDegree.run tests this.degree, a field no
\* WithinDegree has: its value is undefined.
RECURSIVE run(_, _, _)
run(g, query, universe) ==
  CASE query.t = "WithTitle" -> runWithTitle(query, universe)
    [] query.t = "WithTag" -> runWithTag(query, universe)
    [] query.t = "InFolder" -> runInFolder(query, universe)
    [] query.t = "WithinDegree" ->
         IF LessThanOne(Undef) \/ Falsy(query.query_)
         THEN Returned(universe)
         ELSE IF query.query_.t \notin QueryClasses THEN Thrown
         ELSE LET queryNodes == run(g, query.query_, universe)
                  queryNodeIds == {getId(queryNodes.items[i]) :
                                     i \in 1..Len(queryNodes.items)}
              IN  IF queryNodes.threw THEN Thrown
                  ELSE IF \E i \in 1..Len(queryNodes.items) :
                            ~answersGetId(queryNodes.items[i])
                  THEN Thrown
                  ELSE further(g, 1, query.degree_, queryNodeIds,
                               expand(g, queryNodes.items, 1, queryNodeIds,
                                      Returned(<<>>), FALSE))

\* ---- SpecQuery: a store built from the notes, then one call of run or
\* ---- equals on the queries of a configuration, or of createQuery on the
\* ---- text of one

\* The largest degree a WithinDegree query is given.
MaxDegree == 2

\* A universe member that is no note: a QueryableNode, whose getId() is ''.
OtherItem == Item("QueryableNode", "", 0)

\* The adapters filterForQuery_ makes, one per note, and the other item.
UniverseOrder ==
  [i \in 1..(Len(NoteOrder) + 1) |->
     IF i <= Len(NoteOrder) THEN QueryableNoteNode(NoteOrder[i], 0)
     ELSE OtherItem]

\* The universes: the members in the order they were added to the Set.
Universes ==
  {SelectSeq(UniverseOrder, LAMBDA x : x \in members) :
     members \in SUBSET Range(UniverseOrder)}

\* The texts a query is given.
Patterns ==
  {<<>>, <<"s">>, <<"a">>, <<"t">>, <<"x">>, <<"#", "a">>}

LeafQueries ==
  UNION {{WithTitle(Str(p)), WithTag(Str(p)), InFolder(Str(p))} :
           p \in Patterns}

\* What a WithinDegree is given as its query: nothing, or a query.
NestedQueries ==
  {Undef, WithTitle(Str(<<"s">>)), WithTitle(Str(<<"x">>)),
   WithTag(Str(<<"#", "a">>)), WithTag(Str(<<"t">>)),
   WithinDegree(Num(1), WithTitle(Str(<<"s">>)))}

Queries ==
  LeafQueries \cup
    {WithinDegree(d, q) :
       d \in {Undef} \cup {Num(n) : n \in 0..MaxDegree},
       q \in NestedQueries}

\* The strings and numbers a written query is given.
ArgLiterals ==
  {Str(<<>>), Str(<<"x">>), Str(<<"#", "a">>)}
    \cup {Num(n) : n \in 0..MaxDegree}

\* The calls written as an argument: no argument or one literal, or a
\* WithinDegree of a number and a WithTitle.
InnerCalls ==
  {Written(class, args) :
     class \in QueryClasses,
     args \in {<<>>} \cup {<<a>> : a \in ArgLiterals}}
  \cup {Written("WithinDegree",
                <<Num(n), Written("WithTitle", <<Str(<<"x">>)>>)>>) :
          n \in 0..MaxDegree}

\* The argument lists: none, one or two arguments.
ArgLists ==
  {<<>>} \cup {<<a>> : a \in ArgLiterals \cup InnerCalls}
    \cup {<<a, b>> : a \in ArgLiterals \cup InnerCalls,
                    b \in ArgLiterals \cup InnerCalls}

\* The queries as they are written in the filter field.
Calls == {Written(class, args) : class \in QueryClasses, args \in ArgLists}

\* The store is g.
Holds(g) ==
  /\ nodes_ = g.nodes_
  /\ nodesMap_ = g.nodesMap_
  /\ edgesMap_ = g.edgesMap_
  /\ degreeCache_ = g.degreeCache_
  /\ connectedEdges_ = g.connectedEdges_

\* The call that is about to be made, and the call that was made.
ToRun(query, universe) ==
  [op |-> "to run", query |-> query, universe |-> universe]

Ran(query, universe, r) ==
  [op |-> "run", query |-> query, universe |-> universe,
   items |-> r.items, threw |-> r.threw]

ToCompare(a, b) == [op |-> "to compare", a |-> a, b |-> b]

Compared(a, b, r) ==
  [op |-> "equals", a |-> a, b |-> b, ret |-> r.ret, threw |-> r.threw]

ToParse(call) == [op |-> "to parse", call |-> call, text |-> ToText(call)]

Created(call, text, result) ==
  [op |-> "createQuery", call |-> call, text |-> text,
   val |-> IF result # Undef THEN result.val ELSE Undef,
   length |-> IF result # Undef THEN result.length ELSE 0]

InitQuery ==
  /\ last = Call("new", "", FALSE, FALSE)
  /\ refNodes = {}
  /\ refEdges = {}
  /\ held = NoArray
  /\ \/ /\ \E chosen \in SUBSET Range(QueryEdges) :
             Holds(Built(chosen, Len(QueryEdges)))
        /\ \E query \in Queries : \E universe \in Universes :
             answer = ToRun(query, universe)
     \/ /\ Holds(NewGraph)
        /\ \E a, b \in Queries : answer = ToCompare(a, b)
     \/ /\ Holds(NewGraph)
        /\ \E call \in Calls : answer = ToParse(call)

\* query.run(universe). The lists of a store that was only added to hold
\* the edges of the store, so the pruning of getConnectedEdges writes back
\* what was there.
Run ==
  /\ answer.op = "to run"
  /\ answer' = Ran(answer.query, answer.universe,
                   run(G, answer.query, answer.universe))
  /\ UNCHANGED <<nodes_, nodesMap_, edgesMap_, degreeCache_, connectedEdges_,
                 last, refNodes, refEdges, held>>

\* a.equals(b)
Equals ==
  /\ answer.op = "to compare"
  /\ answer' = Compared(answer.a, answer.b, equals(answer.a, answer.b))
  /\ UNCHANGED <<nodes_, nodesMap_, edgesMap_, degreeCache_, connectedEdges_,
                 last, refNodes, refEdges, held>>

\* createQuery(str); the count parseQuery_ returns with the query is kept.
CreateQuery ==
  /\ answer.op = "to parse"
  /\ answer' = Created(answer.call, answer.text, parseQuery_(answer.text))
  /\ UNCHANGED <<nodes_, nodesMap_, edgesMap_, degreeCache_, connectedEdges_,
                 last, refNodes, refEdges, held>>

NextQuery ==
  \/ Run
  \/ Equals
  \/ CreateQuery

SpecQuery == InitQuery /\ [][NextQuery]_vars

\* ---- SpecParse: createQuery on the texts a filter field can hold, then
\* ---- run and equals on the query it returned

\* The largest number written, the longest run of separators written and
\* the largest number of pieces a free text is made of.
MaxNumber == 12

MaxRun == 2

MaxTokens == 4

\* The numbers written: negative ones, one digit and several digits.
Numbers == {0 - MaxNumber, 0 - 1, 0, 1, 2, MaxNumber}

\* The names written: the registered ones and one that is not.
ReadNames == QueryClasses \cup {"Bogus"}

ReadLiterals ==
  {Str(<<>>), Str(<<"x">>), Str(<<"#", "a">>)} \cup {Num(n) : n \in Numbers}

ReadInner ==
  {Written(name, args) :
     name \in ReadNames, args \in {<<>>, <<Str(<<"x">>)>>}}
  \cup {Written("WithinDegree",
                <<Num(1), Written("WithTitle", <<Str(<<"x">>)>>)>>)}

ReadArgLists ==
  {<<>>} \cup {<<a>> : a \in ReadLiterals \cup ReadInner}
    \cup {<<a, b>> : a \in ReadLiterals \cup ReadInner,
                    b \in ReadLiterals \cup ReadInner}

ReadCalls ==
  {Written(name, args) : name \in ReadNames, args \in ReadArgLists}

\* A written query gives every parameter the kind its class declares: a
\* string for a title, tag or folder, a number and then a query for
\* WithinDegree.
RECURSIVE WellTyped(_)
WellTyped(x) ==
  /\ IsCall(x)
  /\ x.name # "WithinDegree" =>
       /\ Len(x.args) <= 1
       /\ \A k \in 1..Len(x.args) :
            ~IsCall(x.args[k]) /\ x.args[k].t = "string"
  /\ x.name = "WithinDegree" =>
       /\ Len(x.args) >= 1 => ~IsCall(x.args[1])
       /\ Len(x.args) >= 1 => x.args[1].t = "number"
       /\ Len(x.args) >= 2 => WellTyped(x.args[2])

\* Every name of a written call is registered.
RECURSIVE Known(_)
Known(x) ==
  IsCall(x) =>
    /\ x.name \in QueryClasses
    /\ \A k \in 1..Len(x.args) : Known(x.args[k])

\* The runs of spaces and commas of up to MaxRun characters.
Runs == UNION {[1..n -> {",", " "}] : n \in 0..MaxRun}

\* The text of a call whose argument list starts with the run before, has
\* the run between between two arguments and ends with the run after.
RECURSIVE TextWith(_, _, _, _)
TextWith(x, before, between, after) ==
  LET RECURSIVE list(_, _)
      list(args, k) ==
        IF k > Len(args) THEN <<>>
        ELSE (IF k > 1 THEN between ELSE <<>>)
               \o TextWith(args[k], before, between, after)
               \o list(args, k + 1)
  IN  IF IsCall(x)
      THEN NameText(x.name) \o <<"(">> \o before \o list(x.args, 1)
             \o after \o <<")">>
      ELSE ToText(x)

\* A text that was cut off, closed where it ends: the quote of an open
\* string literal, then a parenthesis for every call that is open.
Closed(str) ==
  str \o (IF Count(str, "\"") % 2 = 1 THEN <<"\"">> ELSE <<>>)
      \o [k \in 1..(Count(str, "(") - Count(str, ")")) |-> ")"]

\* The pieces of a free text.
Tokens ==
  {NameText("WithTitle"), NameText("WithinDegree"), NameText("Bogus"),
   <<"(">>, <<")">>, <<",">>, <<" ">>, <<"\"">>, <<"x">>, <<"2">>, <<"-">>}

\* The pieces of ts, one after the other.
RECURSIVE Joined(_)
Joined(ts) == IF Len(ts) = 0 THEN <<>> ELSE Head(ts) \o Joined(Tail(ts))

\* The texts read. A well written call with other separators; plain is the
\* text with ', ' between the arguments.
StyledTexts ==
  {[kind |-> "styled", text |-> TextWith(call, before, between, after),
    plain |-> ToText(call)] :
     call \in {c \in ReadCalls : Known(c) /\ WellTyped(c)},
     before \in Runs, between \in Runs \ {<<>>}, after \in Runs}

\* A written call cut off after its first parenthesis; plain is the text
\* closed where it ends.
CutTexts ==
  UNION {{[kind |-> "cut", text |-> SubSeq(ToText(call), 1, k),
           plain |-> Closed(SubSeq(ToText(call), 1, k))] :
            k \in (Len(NameText(call.name)) + 1)..(Len(ToText(call)) - 1)} :
         call \in {c \in ReadCalls : Known(c)}}

\* The texts made of up to MaxTokens pieces.
FreeTexts ==
  {[kind |-> "free", text |-> Joined(ts), plain |-> Joined(ts)] :
     ts \in UNION {[1..n -> Tokens] : n \in 0..MaxTokens}}

ToRead(t) ==
  [op |-> "to read", kind |-> t.kind, text |-> t.text, plain |-> t.plain]

Read(kind, text, plain, val) ==
  [op |-> "read", kind |-> kind, text |-> text, plain |-> plain,
   val |-> val]

RanParsed(text, query, r) ==
  [op |-> "run parsed", text |-> text, query |-> query,
   items |-> r.items, threw |-> r.threw]

ComparedParsed(text, query, r) ==
  [op |-> "equals parsed", text |-> text, query |-> query,
   ret |-> r.ret, threw |-> r.threw]

\* The store holds the notes and no edge.
InitParse ==
  /\ last = Call("new", "", FALSE, FALSE)
  /\ refNodes = {}
  /\ refEdges = {}
  /\ held = NoArray
  /\ Holds(Built({}, Len(QueryEdges)))
  /\ \/ \E call \in ReadCalls : answer = ToParse(call)
     \/ \E t \in StyledTexts : answer = ToRead(t)
     \/ \E t \in CutTexts : answer = ToRead(t)
     \/ \E t \in FreeTexts : answer = ToRead(t)

\* createQuery(str) for a text that is not the plain text of a call.
ReadQuery ==
  /\ answer.op = "to read"
  /\ answer' = Read(answer.kind, answer.text, answer.plain,
                    createQuery(answer.text))
  /\ UNCHANGED <<nodes_, nodesMap_, edgesMap_, degreeCache_, connectedEdges_,
                 last, refNodes, refEdges, held>>

\* createQuery(str).run(universe), the universe holding every note.
RunParsed ==
  /\ answer.op \in {"createQuery", "read"}
  /\ answer.val # Undef
  /\ answer' = RanParsed(answer.text, answer.val,
                         run(G, answer.val, UniverseOrder))
  /\ UNCHANGED <<nodes_, nodesMap_, edgesMap_, degreeCache_, connectedEdges_,
                 last, refNodes, refEdges, held>>

\* createQuery(str).equals(createQuery(str)): the query of the new
\* configuration against the one of the old configuration.
EqualsParsed ==
  /\ answer.op \in {"createQuery", "read"}
  /\ answer.val # Undef
  /\ answer' = ComparedParsed(answer.text, answer.val,
                              equals(answer.val, createQuery(answer.text)))
  /\ UNCHANGED <<nodes_, nodesMap_, edgesMap_, degreeCache_, connectedEdges_,
                 last, refNodes, refEdges, held>>

NextParse ==
  \/ CreateQuery
  \/ ReadQuery
  \/ RunParsed
  \/ EqualsParsed

SpecParse == InitParse /\ [][NextParse]_vars

\* ------------------------------------------------------------------------
\* Properties of the queries
\* ------------------------------------------------------------------------

\* The last call was WithinDegree.run.
RanWithinDegree == answer.op = "run" /\ answer.query.t = "WithinDegree"

\* The seed set of the last WithinDegree.run: what its nested query returns.
Seeds == run(G, answer.query.query_, answer.universe)

\* The ids of ids and of the nodes one edge away from them, in either
\* direction.
Neighbours(nodeIds) ==
  nodeIds \cup {e.source : e \in {x \in Edges : x.target \in nodeIds}}
          \cup {e.target : e \in {x \in Edges : x.source \in nodeIds}}

\* The ids at most k hops from nodeIds.
RECURSIVE WithinHops(_, _)
WithinHops(nodeIds, k) ==
  IF k = 0 THEN nodeIds ELSE WithinHops(Neighbours(nodeIds), k - 1)

\* The ids of a Set's members, in order.
IdsOf(items) == [i \in 1..Len(items) |-> getId(items[i])]

\* C12: WithinDegree(degree, query).run(universe) returns the universe, and
\* does not throw, whenever degree < 1 or no nested query was given.
C12_NoExpansionReturnsUniverse ==
  (/\ RanWithinDegree
   /\ \/ LessThanOne(answer.query.degree_)
      \/ answer.query.query_ = Undef) =>
    /\ ~answer.threw
    /\ answer.items = answer.universe

\* C13: for degree >= 1 and a nested query whose seed set is S, the ids of
\* the result are exactly the ids of the universe members that are not in S
\* and are between 1 and degree hops from S, edges followed in either
\* direction; the run does not throw.
C13_ResultIsHopNeighbourhood ==
  (/\ RanWithinDegree
   /\ answer.query.degree_.t = "number"
   /\ answer.query.degree_.num >= 1
   /\ answer.query.query_ # Undef
   /\ ~Seeds.threw) =>
    /\ ~answer.threw
    /\ Range(IdsOf(answer.items)) =
         {getId(u) : u \in {x \in Range(answer.universe) :
            /\ x \notin Range(Seeds.items)
            /\ getId(x) \in WithinHops(Range(IdsOf(Seeds.items)),
                                       answer.query.degree_.num)}}

\* C14: the result of WithinDegree.run never holds two members with the
\* same node id.
C14_NoDuplicateMembers ==
  (RanWithinDegree /\ ~answer.threw) => NoRepeats(IdsOf(answer.items))

\* C15: the result of WithTitle.run, WithTag.run and InFolder.run holds
\* every universe item that is no note adapter, and only universe items.
C15_OtherItemsPass ==
  (answer.op = "run" /\ answer.query.t # "WithinDegree") =>
    /\ ~answer.threw
    /\ \A x \in Range(answer.universe) :
         x.kind # "QueryableNoteNode" => x \in Range(answer.items)
    /\ Range(answer.items) \subseteq Range(answer.universe)

\* A pattern dropped a note of a universe that also holds the other item.
C15_Witness ==
  /\ answer.op = "run" /\ answer.query.t # "WithinDegree"
  /\ OtherItem \in Range(answer.items)
  /\ \E x \in Range(answer.universe) :
       x.kind = "QueryableNoteNode" /\ x \notin Range(answer.items)
  /\ \E x \in Range(answer.items) : x.kind = "QueryableNoteNode"

\* C16: InFolder(f).run(universe) keeps a note exactly when the folder path
\* of its wrapped node contains f, and the adapter's getFolderPath() is the
\* wrapped node's folder path.
C16_InFolderMatchesFolderPath ==
  (answer.op = "run" /\ answer.query.t = "InFolder") =>
    \A x \in Range(answer.universe) :
      x.kind = "QueryableNoteNode" =>
        /\ x \in Range(answer.items) <=>
             contains(NoteNode_getFolderPath(x.node),
                      answer.query.folder_.str)
        /\ QueryableNoteNode_getFolderPath(x) = NoteNode_getFolderPath(x.node)

\* Two queries are of one kind, have equal literal parameters and, if they
\* nest queries, nest queries that are the same in this sense.
RECURSIVE SameQuery(_, _)
SameQuery(a, b) ==
  /\ a.t = b.t
  /\ a.t = "WithTitle" => a.title_ = b.title_
  /\ a.t = "WithTag" => a.tag_ = b.tag_
  /\ a.t = "InFolder" => a.folder_ = b.folder_
  /\ a.t = "WithinDegree" =>
       /\ a.degree_ = b.degree_
       /\ (a.query_ = Undef) <=> (b.query_ = Undef)
       /\ a.query_ # Undef /\ b.query_ # Undef =>
            SameQuery(a.query_, b.query_)

\* C17: a.equals(b) is true exactly when a and b are of the same kind, have
\* equal literal parameters and equal nested queries; so a.equals(a) is
\* true, queries of different kinds are never equal, and
\* WithinDegree(2, WithTag("#a")) does not equal WithinDegree(1, WithTag("#a")).
C17_EqualsIsStructural ==
  /\ answer.op = "equals" =>
       /\ ~answer.threw
       /\ answer.ret <=> SameQuery(answer.a, answer.b)
       /\ answer.a = answer.b => answer.ret
       /\ answer.a.t # answer.b.t => ~answer.ret
  /\ ~equals(WithinDegree(Num(2), WithTag(Str(<<"#", "a">>))),
             WithinDegree(Num(1), WithTag(Str(<<"#", "a">>)))).ret

\* Two WithinDegree queries that differ in the degree only were compared.
C17_Witness ==
  /\ answer.op = "equals"
  /\ ~answer.ret
  /\ answer.a = WithinDegree(Num(2), WithTag(Str(<<"#", "a">>)))
  /\ answer.b = WithinDegree(Num(1), WithTag(Str(<<"#", "a">>)))

\* C20: createQuery applied to the text Name(arg1, arg2, ...) of a query
\* returns a query with the class and the parameters of the one constructed
\* directly, equal to it by equals when the parameters have the declared
\* kinds; the count returned for a call is the length of its text, so the
\* parser resumes right after the closing parenthesis of a nested call.
C20_ParsedEqualsConstructed ==
  answer.op = "createQuery" =>
    /\ answer.val = Build(answer.call)
    /\ answer.length = Len(answer.text)
    /\ WellTyped(answer.call) =>
         /\ equals(answer.val, Build(answer.call)) = [ret |-> TRUE,
                                                       threw |-> FALSE]
         /\ equals(Build(answer.call), answer.val) = [ret |-> TRUE,
                                                       threw |-> FALSE]
    /\ \A k \in 1..Len(answer.call.args) :
         IsCall(answer.call.args[k]) =>
           parseQuery_(ToText(answer.call.args[k])
                         \o <<",", " ", "2", ")">>).length
             = Len(ToText(answer.call.args[k]))

\* WithinDegree(2, WithTitle("x")) was parsed, and so was a call with an
\* argument after a nested call.
C20_Witness ==
  /\ answer.op = "createQuery"
  /\ \/ /\ answer.call =
             Written("WithinDegree",
                     <<Num(2), Written("WithTitle", <<Str(<<"x">>)>>)>>)
        /\ answer.val = WithinDegree(Num(2), WithTitle(Str(<<"x">>)))
     \/ /\ answer.call =
             Written("WithinDegree",
                     <<Written("WithTitle", <<Str(<<"x">>)>>), Num(2)>>)
        /\ answer.val.query_ = Num(2)

\* ---- SpecClear: a store that is used, cleared and used again, next to a
\* ---- newly constructed store that is given the calls made after clear()

\* The largest number of calls made after clear().
MaxCalls == 3

\* The newly constructed store g, the number of calls made on it and
\* whether each of them threw on both stores or on neither.
Twin(g, calls, agreed) ==
  [op |-> "fresh", g |-> g, calls |-> calls, agreed |-> agreed]

Cleared == answer.op = "fresh"

FirstAddNode(node) == ~Cleared /\ CallAddNode(node) /\ Plain

FirstAddEdge(edge) == ~Cleared /\ CallAddEdge(edge) /\ Plain

FirstRemoveEdge(edgeId) == ~Cleared /\ CallRemoveEdge(edgeId) /\ Plain

FirstRemoveNode(nodeId) == ~Cleared /\ CallRemoveNode(nodeId) /\ Plain

\* clear(), and new Graph() next to it.
ClearAndNew ==
  /\ ~Cleared
  /\ CallClear
  /\ answer' = Twin(NewGraph, 0, TRUE)
  /\ UNCHANGED <<refNodes, refEdges, held>>

\* The new store is given the call the cleared store is given: r is what
\* the call returns on the new store, threw whether it threw on the cleared.
Both(r, threw) ==
  /\ Cleared
  /\ answer.calls < MaxCalls
  /\ answer' = Twin(r.g, answer.calls + 1,
                    answer.agreed /\ r.threw = threw)
  /\ UNCHANGED <<refNodes, refEdges, held>>

BothAddNode(node) ==
  CallAddNode(node) /\ Both(addNode(answer.g, node), addNode(G, node).threw)

BothAddEdge(edge) ==
  CallAddEdge(edge) /\ Both(addEdge(answer.g, edge), addEdge(G, edge).threw)

BothRemoveEdge(edgeId) ==
  /\ CallRemoveEdge(edgeId)
  /\ Both(removeEdge(answer.g, edgeId), removeEdge(G, edgeId).threw)

BothRemoveNode(nodeId) ==
  /\ CallRemoveNode(nodeId)
  /\ Both(removeNode(answer.g, nodeId), removeNode(G, nodeId).threw)

NextClear ==
  \/ \E node \in NodeIds : FirstAddNode(node)
  \/ \E edge \in EdgeInputs : FirstAddEdge(edge)
  \/ \E edgeId \in EdgeIds : FirstRemoveEdge(edgeId)
  \/ \E nodeId \in NodeIds : FirstRemoveNode(nodeId)
  \/ ClearAndNew
  \/ \E node \in NodeIds : BothAddNode(node)
  \/ \E edge \in EdgeInputs : BothAddEdge(edge)
  \/ \E edgeId \in EdgeIds : BothRemoveEdge(edgeId)
  \/ \E nodeId \in NodeIds : BothRemoveNode(nodeId)

SpecClear == Init /\ [][NextClear]_vars

\* ---- SpecConfig: the notes builder (src/graph-builders/notes.js) filling
\* ---- the store from a vault, then following the changes of its
\* ---- configuration

\* The largest number of configuration changes followed.
MaxUpdates == 3

\* cache.links of each file: the ids its links name; N names no file.
links_ ==
  [n \in NoteIds |->
     CASE n = "S" -> <<"X", "N">>
       [] n = "T" -> <<>>
       [] n = "X" -> <<"S", "S">>
       [] n = "Y" -> <<"X">>]

\* cache.embeds of each file: the links of its attachments.
embeds_ ==
  [n \in NoteIds |->
     CASE n = "S" -> <<"img">>
       [] OTHER -> <<>>]

\* getAllTags(cache): the tags of a file, each with its octothorpe.
getAllTags(n) == [i \in 1..Len(tags_[n]) |-> <<"#">> \o tags_[n][i]]

\* fileToId(file, metadataCache): the link text of the file.
fileToId(n) == n

\* linkCacheToId(linkCache)
linkCacheToId(link) == link

\* tagToId(tag): 'tag' + tag.substring(1), as one string per tag of the
\* vault.
tagToId(tag) ==
  LET cut == Tail(tag)
  IN  CASE cut = <<"t">> -> "tagt"
        [] cut = <<"s">> -> "tags"
        [] cut = <<"a">> -> "taga"

\* attachmentToId(attachment): 'attachment' + attachment.link, as one string
\* per attachment of the vault.
attachmentToId(link) == CASE link = "img" -> "attachmentimg"

\* getEdgeId(sourceId, targetId): sourceId + '-to-' + targetId, kept as its
\* three parts.
getEdgeId(sourceId, targetId) == <<sourceId, "-to-", targetId>>

\* The ids whose node is a NoteNode, a NonExistingNoteNode, a TagNode and an
\* AttachmentNode; in this vault no id is given to nodes of two classes.
NoteNodeIds == {fileToId(n) : n \in NoteIds}

NonExistingNoteNodeIds ==
  UNION {{linkCacheToId(link) : link \in Range(links_[n])} : n \in NoteIds}
    \ NoteNodeIds

TagNodeIds == {"tagt", "tags", "taga"}

AttachmentNodeIds == {"attachmentimg"}

\* A configuration: the four toggles and the query.
Config(tags, attachments, existingFilesOnly, orphans, query) ==
  [tags |-> tags, attachments |-> attachments,
   existingFilesOnly |-> existingFilesOnly, orphans |-> orphans,
   query |-> query]

\* getConfig(): the defaults of the toggles, and no query.
DefaultConfig == Config(FALSE, FALSE, FALSE, TRUE, Undef)

\* The queries the query field gives: none, or a query on the notes alone.
ConfigQueries ==
  {Undef, WithTitle(Str(<<"s">>)), WithTitle(Str(<<"x">>)),
   WithTag(Str(<<"t">>))}

\* The configurations one change of a component of config leads to; a
\* change of the text of the query can give the query it gave before.
Changed(config) ==
  {[config EXCEPT !.tags = ~@], [config EXCEPT !.attachments = ~@],
   [config EXCEPT !.existingFilesOnly = ~@], [config EXCEPT !.orphans = ~@]}
    \cup {[config EXCEPT !.query = q] : q \in ConfigQueries}

\* What a step of the builder leaves: the store, and whether it threw.
Done(g) == [g |-> g, threw |-> FALSE]

Failed(g) == [g |-> g, threw |-> TRUE]

\* The addNode and addEdge calls of a loop, made in order up to the first
\* that throws.
RECURSIVE perform(_, _)
perform(g, ops) ==
  IF ops = <<>> THEN Done(g)
  ELSE LET r == IF Head(ops).op = "addNode"
                THEN addNode(g, Head(ops).node)
                ELSE addEdge(g, Head(ops).edge)
       IN  IF r.threw THEN Failed(r.g) ELSE perform(r.g, Tail(ops))

\* files.forEach(file => cache[file].forEach(ref => ...)): the pairs the
\* inner callback is called on, for the first k files.
RECURSIVE refsOf(_, _)
refsOf(cache, k) ==
  IF k = 0 THEN <<>>
  ELSE refsOf(cache, k - 1) \o
         [i \in 1..Len(cache[NoteOrder[k]]) |->
            [from |-> fileToId(NoteOrder[k]), to |-> cache[NoteOrder[k]][i]]]

\* The calls the inner callback of an adding loop makes on the pairs refs:
\* the node of a pair is added unless its id is in createdNodeIds (when the
\* loop adds nodes), its edge unless the id is in createdEdgeIds, and both
\* sets grow as the loop goes.
RECURSIVE additions(_, _, _, _)
additions(refs, addsNodes, createdNodeIds, createdEdgeIds) ==
  IF refs = <<>> THEN <<>>
  ELSE LET ref == Head(refs)
           edgeId == getEdgeId(ref.from, ref.to)
           node == IF addsNodes /\ ref.to \notin createdNodeIds
                   THEN <<[op |-> "addNode", node |-> ref.to]>>
                   ELSE <<>>
           edge == IF edgeId \notin createdEdgeIds
                   THEN <<[op |-> "addEdge",
                           edge |-> [id |-> edgeId, source |-> ref.from,
                                     target |-> ref.to]]>>
                   ELSE <<>>
       IN  node \o edge \o
             additions(Tail(refs), addsNodes, createdNodeIds \cup {ref.to},
                       createdEdgeIds \cup {edgeId})

\* The ids of the edges of the store.
edgeIdsOf(g) == {g.edgesMap_[i].id : i \in 1..Len(g.edgesMap_)}

\* addExistingFiles_(files, metadataCache)
addExistingFiles_(g) ==
  LET createdFileIds == Range(getNodes(g)) \cup NoteNodeIds
      missing(n) == fileToId(n) \notin Range(getNodes(g))
      created == SelectSeq(NoteOrder, missing)
      nodes == [i \in 1..Len(created) |->
                  [op |-> "addNode", node |-> fileToId(created[i])]]
      linked(ref) == linkCacheToId(ref.to) \in createdFileIds
      r == perform(g, nodes)
  IN  IF r.threw THEN r
      ELSE perform(r.g,
                   additions(SelectSeq(refsOf(links_, Len(NoteOrder)), linked),
                             FALSE, {}, edgeIdsOf(g)))

\* addNonExistingFiles_(files, metadataCache)
addNonExistingFiles_(g) ==
  LET existingFileIds == NoteNodeIds
      absent(ref) == linkCacheToId(ref.to) \notin existingFileIds
  IN  perform(g, additions(SelectSeq(refsOf(links_, Len(NoteOrder)), absent),
                           TRUE, {}, edgeIdsOf(g)))

\* The callers of forEachNode that remove the nodes of a class.
removeIn(g, sel) ==
  LET r == forEachNode(g, Len(g.nodes_), sel, <<>>)
  IN  [g |-> r.g, threw |-> r.threw]

\* removeNonExistingFiles_(files, metadataCache)
removeNonExistingFiles_(g) == removeIn(g, NonExistingNoteNodeIds)

\* addTags_(files, metadataCache)
addTags_(g) ==
  LET tagIds == [n \in NoteIds |->
                   [i \in 1..Len(getAllTags(n)) |-> tagToId(getAllTags(n)[i])]]
  IN  perform(g, additions(refsOf(tagIds, Len(NoteOrder)), TRUE, {}, {}))

\* removeTags_(files, metadataCache)
removeTags_(g) == removeIn(g, TagNodeIds)

\* addAttachments_(files, metadataCache)
addAttachments_(g) ==
  LET attachmentIds ==
        [n \in NoteIds |->
           [i \in 1..Len(embeds_[n]) |-> attachmentToId(embeds_[n][i])]]
  IN  perform(g, additions(refsOf(attachmentIds, Len(NoteOrder)),
                           TRUE, {}, {}))

\* removeAttachments_(files, metadataCache)
removeAttachments_(g) == removeIn(g, AttachmentNodeIds)

\* filterForQuery_(query): the notes of the store are wrapped in the order
\* getNodes() gives them, and the notes the query does not return are
\* removed.
filterForQuery_(g, query) ==
  LET isNote(node) == node \in NoteNodeIds
      notes == SelectSeq(getNodes(g), isNote)
      nodes == [i \in 1..Len(notes) |-> QueryableNoteNode(notes[i], 0)]
      r == run(g, query, nodes)
      newNodes == NodesOf(r.items)
  IN  IF r.threw THEN Failed(g)
      ELSE removeIn(g, NoteNodeIds \ newNodes)

\* addOrphans_(files, metadataCache)
addOrphans_(g) ==
  LET existingNodeIds == Range(getNodes(g))
      missing(n) == fileToId(n) \notin existingNodeIds
      created == SelectSeq(NoteOrder, missing)
  IN  perform(g, [i \in 1..Len(created) |->
                    [op |-> "addNode", node |-> fileToId(created[i])]])

\* removeOrphans_(files, metadataCache)
removeOrphans_(g) ==
  LET referencedNodeIds ==
        {getSourceId(g.edgesMap_[i]) : i \in 1..Len(g.edgesMap_)}
          \cup {getTargetId(g.edgesMap_[i]) : i \in 1..Len(g.edgesMap_)}
  IN  removeIn(g, Range(getNodes(g)) \ referencedNodeIds)

\* What a call of the builder leaves: the store, whether it threw, and
\* whether it triggered 'structure-update' with the store.
Built_(r, triggered) ==
  [g |-> r.g, threw |-> r.threw, triggered |-> ~r.threw /\ triggered]

\* The steps of onConfigUpdate and generateGraph, each on what the steps
\* before it left: a step is skipped once one has thrown.

\* this.addOrphans_(files, metadataCache)
updateOrphansAdded(r) == IF r.threw THEN r ELSE addOrphans_(r.g)

\* if (was != is) { if (is) addTags_(...) else removeTags_(...) }
updateTags(r, was, is) ==
  IF r.threw \/ was = is THEN r
  ELSE IF is THEN addTags_(r.g)
  ELSE removeTags_(r.g)

\* if (was != is) { if (is) addAttachments_(...) else removeAttachments_(...) }
updateAttachments(r, was, is) ==
  IF r.threw \/ was = is THEN r
  ELSE IF is THEN addAttachments_(r.g)
  ELSE removeAttachments_(r.g)

\* if (was != is) { if (is) removeNonExistingFiles_(...)
\*                  else addNonExistingFiles_(...) }
updateExistingFilesOnly(r, was, is) ==
  IF r.threw \/ was = is THEN r
  ELSE IF is THEN removeNonExistingFiles_(r.g)
  ELSE addNonExistingFiles_(r.g)

\* oldConfig.get(QUERY) && !oldConfig.get(QUERY).equals(newConfig.get(QUERY)):
\* whether it is truthy, and whether equals threw.
queryChanged(oldQuery, newQuery) ==
  IF Falsy(oldQuery) THEN [ret |-> FALSE, threw |-> FALSE]
  ELSE [ret |-> ~equals(oldQuery, newQuery).ret,
        threw |-> equals(oldQuery, newQuery).threw]

\* The test of the queries, then
\* if (newConfig.get(QUERY)) { this.filterForQuery_(newConfig.get(QUERY)); }
updateQuery(r, oldQuery, newQuery) ==
  IF r.threw THEN r
  ELSE IF queryChanged(oldQuery, newQuery).threw THEN Failed(r.g)
  ELSE IF Falsy(newQuery) THEN r
  ELSE filterForQuery_(r.g, newQuery)

\* if (!config.get(ORPHANS)) { this.removeOrphans_(files, metadataCache) }
updateOrphans(r, orphans) ==
  IF r.threw \/ orphans THEN r ELSE removeOrphans_(r.g)

\* generateGraph(config, vault, metadataCache)
generateGraph(g, config) ==
  Built_(updateOrphans(
           updateExistingFilesOnly(
             updateAttachments(
               updateTags(addExistingFiles_(g), FALSE, config.tags),
               FALSE, config.attachments),
             TRUE, config.existingFilesOnly),
           config.orphans),
         TRUE)

\* onConfigUpdate(oldConfig, newConfig, vault, metadataCache)
onConfigUpdate(g, oldConfig, newConfig) ==
  Built_(updateOrphans(
           updateQuery(
             updateExistingFilesOnly(
               updateAttachments(
                 updateTags(updateOrphansAdded(addExistingFiles_(g)),
                            oldConfig.tags, newConfig.tags),
                 oldConfig.attachments, newConfig.attachments),
               oldConfig.existingFilesOnly, newConfig.existingFilesOnly),
             oldConfig.query, newConfig.query),
           newConfig.orphans),
         \/ oldConfig.orphans # newConfig.orphans
         \/ oldConfig.tags # newConfig.tags
         \/ oldConfig.attachments # newConfig.attachments
         \/ oldConfig.existingFilesOnly # newConfig.existingFilesOnly
         \/ queryChanged(oldConfig.query, newConfig.query).ret)

\* The sets of nodes and of edges of the store.
NodeSet(g) == Range(getNodes(g))

EdgeSet(g) == Range(getEdges(g))

\* The view before the builder is asked for the graph, and after a call of
\* the builder: config is currentBuilderConfig_, nodes and edges are the
\* sets the store held when the call started, updates counts the calls of
\* onConfigUpdate.
ToGenerate == [op |-> "to generate", config |-> DefaultConfig]

Updated(op, config, oldConfig, newConfig, g, r, updates) ==
  [op |-> op, config |-> config, oldConfig |-> oldConfig,
   newConfig |-> newConfig, nodes |-> NodeSet(g), edges |-> EdgeSet(g),
   threw |-> r.threw, triggered |-> r.triggered, updates |-> updates]

\* new Graph(), and the configuration the view made of the defaults
InitConfig ==
  /\ Holds(NewGraph)
  /\ last = Call("new", "", FALSE, FALSE)
  /\ refNodes = {}
  /\ refEdges = {}
  /\ held = NoArray
  /\ answer = ToGenerate

\* updateSelectedBuilder_: generateGraph(currentBuilderConfig_, ...)
GenerateGraph ==
  /\ answer.op = "to generate"
  /\ LET r == generateGraph(G, answer.config)
     IN  /\ Becomes(r.g)
         /\ answer' = Updated("generateGraph", answer.config, answer.config,
                              answer.config, G, r, 0)
  /\ UNCHANGED <<last, refNodes, refEdges, held>>

\* updateConfig_: onConfigUpdate(currentBuilderConfig_, newConfig, ...),
\* then currentBuilderConfig_ = newConfig unless the call threw.
OnConfigUpdate(newConfig) ==
  /\ answer.op \in {"generateGraph", "onConfigUpdate"}
  /\ answer.updates < MaxUpdates
  /\ newConfig \in Changed(answer.config)
  /\ LET r == onConfigUpdate(G, answer.config, newConfig)
     IN  /\ Becomes(r.g)
         /\ answer' = Updated("onConfigUpdate",
                              IF r.threw THEN answer.config ELSE newConfig,
                              answer.config, newConfig, G, r,
                              answer.updates + 1)
  /\ UNCHANGED <<last, refNodes, refEdges, held>>

NextConfig ==
  \/ GenerateGraph
  \/ \E tags, attachments, existingFilesOnly, orphans \in BOOLEAN :
       \E query \in ConfigQueries :
         OnConfigUpdate(Config(tags, attachments, existingFilesOnly, orphans,
                               query))

SpecConfig == InitConfig /\ [][NextConfig]_vars

\* ------------------------------------------------------------------------
\* Properties of createQuery on the texts of SpecParse
\* ------------------------------------------------------------------------

\* createQuery has returned for the text answer.text.
HasRead == answer.op \in {"createQuery", "read"}

\* The name a text starts with: what stands before its first parenthesis.
NameOf(str) == SubSeq(str, 1, PrefixNotIn(str, {"("}))

\* The letters of name, in lower case, spell no key of the registry.
Unregistered(name) ==
  LET letters ==
        SelectSeq(name,
                  LAMBDA c : c \in Range(LowerCase) \cup Range(UpperCase))
  IN  \A k \in DOMAIN QUERY_MAP :
        KeyOf(k) # [i \in 1..Len(letters) |-> toLowerCase(letters[i])]

\* C21: createQuery on a call whose name is not registered, such as
\* Bogus("x"), returns undefined; and where a call with such a name stands
\* as an argument, the parse of that call (parseQuery_ on the text from its
\* name on) is undefined. Nothing is thrown: the parse returns.
C21_UnknownNameIsAbsent ==
  HasRead =>
    /\ (Len(NameOf(answer.text)) > 0 /\ Unregistered(NameOf(answer.text)))
         => answer.val = Undef
    /\ \A j \in 1..Len(answer.text) :
         (/\ Len(NameOf(substring(answer.text, j))) > 0
          /\ Unregistered(NameOf(substring(answer.text, j))))
           => parseQuery_(substring(answer.text, j)) = Undef

\* Bogus("x") was read, and so was WithinDegree(2, Bogus("x")).
C21_Witness ==
  /\ answer.op = "createQuery"
  /\ \/ answer.call = Written("Bogus", <<Str(<<"x">>)>>) /\ answer.val = Undef
     \/ /\ answer.call =
             Written("WithinDegree",
                     <<Num(2), Written("Bogus", <<Str(<<"x">>)>>)>>)
        /\ parseQuery_(substring(answer.text, 16)) = Undef

\* C22: within an argument list spaces and commas only separate: a well
\* written call whose arguments are separated by any non-empty run of
\* spaces and commas, with any run before the first and after the last
\* argument, is parsed to the query its text with ', ' between the arguments
\* is parsed to; so WithinDegree(2,WithTitle("x")) gives
\* WithinDegree(2, WithTitle('x')).
C22_SeparatorsOnlySeparate ==
  (answer.op = "read" /\ answer.kind = "styled") =>
    /\ answer.val # Undef
    /\ answer.val = createQuery(answer.plain)

\* C23: an integer literal written as an argument, with or without a sign,
\* is parsed to its value and takes exactly its own characters: a call of
\* registered names whose first argument is an integer is parsed to the
\* query built from its arguments, the count being the length of the text;
\* so WithinDegree(-1, WithTitle("x")) gives WithinDegree(-1, WithTitle('x'))
\* and 12 gives 12.
C23_IntegerLiterals ==
  (/\ answer.op = "createQuery"
   /\ Known(answer.call)
   /\ Len(answer.call.args) >= 1
   /\ ~IsCall(answer.call.args[1])
   /\ answer.call.args[1].t = "number") =>
    /\ answer.val = Build(answer.call)
    /\ answer.length = Len(answer.text)
    /\ parseNumberLit_(NumberText(answer.call.args[1].num) \o <<",">>)
         = Parsed(answer.call.args[1],
                  Len(NumberText(answer.call.args[1].num)))

\* C24: the edges of an argument list give a query, not a failure: Name()
\* gives the query built with no argument, "" the empty string, and a text
\* that ends inside a string literal or a call is parsed as the text closed
\* where it ends; so WithTag("#a gives WithTag('#a') and
\* WithinDegree(2, WithTitle("x" gives WithinDegree(2, WithTitle('x')).
C24_CutTextsParseAsClosed ==
  /\ (answer.op = "read" /\ answer.kind = "cut") =>
       /\ answer.val # Undef
       /\ answer.val = createQuery(answer.plain)
  /\ (/\ answer.op = "createQuery"
      /\ answer.call.name \in QueryClasses
      /\ answer.call.args = <<>>) =>
       answer.val = New(answer.call.name, <<>>)
  /\ (/\ answer.op = "createQuery"
      /\ answer.call.name \in QueryClasses
      /\ answer.call.args = <<Str(<<>>)>>) =>
       answer.val = New(answer.call.name, <<Str(<<>>)>>)
  /\ parseStringLit_(<<"\"", "\"", ")">>) = Parsed(Str(<<>>), 2)

\* WithTag("#a was read and gave WithTag('#a'); or
\* WithinDegree(2, WithTitle("x" was read and gave the nested query.
C24_Witness ==
  /\ answer.op = "read" /\ answer.kind = "cut"
  /\ \/ /\ answer.text =
             <<"W", "i", "t", "h", "T", "a", "g", "(", "\"", "#", "a">>
        /\ answer.val = WithTag(Str(<<"#", "a">>))
     \/ /\ answer.text =
             <<"W", "i", "t", "h", "i", "n", "D", "e", "g", "r", "e", "e",
               "(", "2", ",", " ", "W", "i", "t", "h", "T", "i", "t", "l",
               "e", "(", "\"", "x", "\"">>
        /\ answer.val = WithinDegree(Num(2), WithTitle(Str(<<"x">>)))

\* createQuery is about to be called with the text answer.text.
AboutToRead == answer.op \in {"to parse", "to read"}

\* From position j of str to its end: a pass of the argument loop
\* at that position moves on by at least one character, and a call that
\* starts there hands a shorter text to its argument loop.
RECURSIVE Advances(_, _)
Advances(str, j) ==
  j < Len(str) =>
    /\ Advances(str, j + 1)
    /\ str[j + 1] # ")" => loopStep(substring(str, j), 0).i >= 1
    /\ Len(paramsOf(substring(str, j))) < Len(substring(str, j))

\* C25: createQuery returns for every text, with a query or with undefined:
\* at every position of the text a pass of the argument loop moves on by at
\* least one character and parseQuery_ hands a strictly shorter text to
\* parseParams_, which hands parseQuery_ a part of its own text; no step
\* of the parse can throw.
C25_CreateQueryReturns ==
  /\ AboutToRead => Advances(answer.text, 0)
  /\ HasRead => (answer.val = Undef \/ answer.val.t \in QueryClasses)

\* A free text with an open string literal and a text with a sign were
\* read; one gave a query and the other gave none.
C25_Witness ==
  /\ answer.op = "read" /\ answer.kind = "free"
  /\ \/ /\ answer.text = NameText("WithTitle") \o <<"(", "\"", "x">>
        /\ answer.val = WithTitle(Str(<<"x">>))
     \/ /\ answer.text = <<"-", "2", "(", ")">>
        /\ answer.val = Undef

\* A query has parameters of the declared kinds: a string for a title, a
\* tag or a folder; for WithinDegree an integer or nothing as the degree and
\* nothing or such a query as the nested query.
RECURSIVE WellFormed(_)
WellFormed(q) ==
  /\ q.t \in QueryClasses
  /\ q.t = "WithTitle" => q.title_.t = "string"
  /\ q.t = "WithTag" => q.tag_.t = "string"
  /\ q.t = "InFolder" => q.folder_.t = "string"
  /\ q.t = "WithinDegree" =>
       /\ q.degree_.t \in {"number", "undefined"}
       /\ q.query_ # Undef => (q.query_.t \in QueryClasses
                                 /\ WellFormed(q.query_))

\* No number written in x has a sign.
RECURSIVE Unsigned(_)
Unsigned(x) ==
  IF IsCall(x) THEN \A k \in 1..Len(x.args) : Unsigned(x.args[k])
  ELSE x.t = "number" => x.num >= 0

\* The texts of the calls of a registered name that give every parameter
\* the declared kind, with ', ' between arguments and no sign; the name of
\* a nested call may be one that is not registered.
WellWrittenTexts ==
  {ToText(c) : c \in {x \in ReadCalls : /\ x.name \in QueryClasses
                                        /\ WellTyped(x)
                                        /\ Unsigned(x)}}

\* C29: every query createQuery returns is well formed (the degree of a
\* WithinDegree is an integer, its nested parameter nothing or a query, the
\* parameter of the other three a string), so neither run nor equals on a
\* parsed query throws because a parameter is of the wrong kind, also when
\* a nested call has a name that is not registered. Stated for the texts
\* that are well written but for such a name.
C29_ParsedQueriesAreWellFormed ==
  answer.text \in WellWrittenTexts =>
    /\ (answer.op = "createQuery" /\ answer.val # Undef) =>
         WellFormed(answer.val)
    /\ answer.op \in {"run parsed", "equals parsed"} => ~answer.threw

\* C26: a title, tag or folder query built with no pattern or with the
\* empty pattern returns the whole universe, its notes included.
C26_EmptyPatternReturnsUniverse ==
  (/\ answer.op = "run"
   /\ answer.query \in {WithTitle(Undef), WithTitle(Str(<<>>)),
                        WithTag(Undef), WithTag(Str(<<>>)),
                        InFolder(Undef), InFolder(Str(<<>>))}) =>
    /\ ~answer.threw
    /\ answer.items = answer.universe

\* ------------------------------------------------------------------------
\* Further properties of the store
\* ------------------------------------------------------------------------

\* C27: in every reachable state and for every node id n, the list
\* getConnectedEdges(n) returns holds no edge id twice and is as long as
\* degree(n) says; also with an edge from n to n in the store, and after an
\* edge id was removed and added again.
C27_ConnectedEdgesMatchDegree ==
  \A n \in NodeIds :
    /\ NoRepeats(getConnectedEdges(G, n).ret)
    /\ Len(getConnectedEdges(G, n).ret) = degree(G, n).ret

\* C28: after clear() the store cannot be told from a newly constructed
\* one: whatever calls follow, also ones that add the ids used before again,
\* hasNode, hasEdge, getNodes, getEdges, getConnectedEdges and degree return
\* on it what they return on a new store given the same calls, and
\* every call throws on both or on neither.
C28_ClearedIsLikeNew ==
  Cleared =>
    /\ answer.agreed
    /\ getNodes(G) = getNodes(answer.g)
    /\ getEdges(G) = getEdges(answer.g)
    /\ \A id \in NodeIds :
         /\ hasNode(G, id) <=> hasNode(answer.g, id)
         /\ getConnectedEdges(G, id).ret = getConnectedEdges(answer.g, id).ret
         /\ degree(G, id).ret = degree(answer.g, id).ret
    /\ \A id \in EdgeIds : hasEdge(G, id) <=> hasEdge(answer.g, id)

\* ------------------------------------------------------------------------
\* Properties of the notes builder
\* ------------------------------------------------------------------------

====
